---- MODULE Spec2Model ----
(***************************************************************************)
(* Model of the trajectory analysis pipeline of src/src/trajectory.py:     *)
(*   - Trajectory.classify             (formation-order classifier)        *)
(*   - Trajectory.summarize_trajectory (window summarizer)                 *)
(*   - Trajectory.read_trajectory      (trajectory scanner)                *)
(* Each operation has its own specification over the shared variables; the *)
(* variables of the other operations stay at their idle values.            *)
(*                                                                         *)
(* Python sequences are 0-based, TLA+ sequences 1-based: an index idx of   *)
(* the code is idx + 1 here, and the loop "range(start_idx, -1, -1)" runs  *)
(* from start_idx down to 1.                                               *)
(***************************************************************************)
EXTENDS Integers, Sequences, FiniteSets, TLC

VARIABLES
    op,                   \* which operation this behaviour runs
    pc,                   \* position inside the running operation
    error,                \* the exception raised ("none" while there is none)
    \* ---- classify ----
    summary_in,           \* summary_df_or_path: window key -> (cluster id -> 0/1)
    cluster_columns,      \* ids of the columns cluster_<id> other than cluster_0
    sorted_index,         \* summary_df.index after sort_index()
    start_idx,            \* position of start_frame in the sorted index (1-based)
    idx,                  \* loop variable of the backward scan (1-based)
    currently_formed,
    cluster_breaks_order,
    formation_order,      \* the returned list (None until returned)
    class_file,           \* content of the formation-order file (NoFile if absent)
    \* ---- summarize_trajectory ----
    df_in,                \* df: the Frame Results, a list of rows in input order
    window_size,
    cutoff,               \* None, or Some(<<n, d>>) for the cutoff n/d
    save_csv,
    df_sorted,            \* df after sort_values('frame')
    window_idx,           \* loop variable (0-based, as in the code)
    summary_data,         \* the window summaries built so far
    window_frames,        \* for each window built, the frame ids of window_df
    summary_df,           \* the returned summary (None until returned)
    summary_file,         \* content of the summary file (NoFile if absent)
    contacts_csv,         \* content of {base}_contacts.csv (NoFile if absent)
    \* ---- _read_pdb_manual / read_trajectory ----
    pdb_lines,            \* the lines of the trajectory file
    native_contacts,      \* self.native_contacts: the rows of the contact table
    max_frames,           \* None or Some(m)
    return_df,
    line_num,             \* number of lines consumed so far
    frames_data,          \* frame id -> (residue -> coordinates)
    current_model,        \* None or Some(id)
    current_residue_coords,
    model_found,
    model_saved,
    frame_pos,            \* frames of sorted_frame_nums evaluated so far
    results,              \* the Frame Results built so far
    parsed_csv,           \* content of the per-frame result file (NoFile if absent)
    ret,                  \* what read_trajectory returned
    \* ---- ContactMap.cluster ----
    contacts,             \* the (i, j) pairs of the rows of self.df, in row order
    cluster_number,
    cutoff_size,
    kmeans,               \* feature array -> labels: what fit_predict has returned
    visited,
    raw_clusters,         \* "clusters" of _create_raw_clusters
    stack,
    cluster_cur,          \* "cluster" of _create_raw_clusters: the component being built
    contact_idx,          \* contacts of "for contact in contacts" passed so far
    result_clusters,
    largest_cluster_idx,  \* 0 before the first iteration of the split loop
    split_clusters,       \* what _split_cluster returned last
    cluster_column,       \* None, or Some(contact -> id): self.df['cluster']
    runs,                 \* calls of cluster() completed before the current one
    previous_column,      \* cluster_column of the previous call
    contact_pair,         \* the two arguments of _are_adjacent_contacts
    adjacent              \* None, or Some(what the calls returned)

classifyVars == <<summary_in, cluster_columns, sorted_index, start_idx, idx,
                  currently_formed, cluster_breaks_order, formation_order, class_file>>

summarizeVars == <<df_in, window_size, cutoff, save_csv, df_sorted, window_idx,
                   summary_data, window_frames, summary_df, summary_file,
                   contacts_csv>>

readVars == <<pdb_lines, native_contacts, max_frames, return_df, line_num, frames_data,
              current_model,
              current_residue_coords, model_found, model_saved, frame_pos, results,
              parsed_csv, ret>>

clusterVars == <<contacts, cluster_number, cutoff_size, kmeans, visited, raw_clusters,
                 stack, cluster_cur, contact_idx, result_clusters, largest_cluster_idx,
                 split_clusters, cluster_column, runs, previous_column>>

adjacencyVars == <<contact_pair, adjacent>>

vars == <<op, pc, error, classifyVars, summarizeVars, readVars, clusterVars,
          adjacencyVars>>

\* An optional value: None, or Some(x) holding x.  The formation-order file is
\* absent (NoFile) or holds a list.
None == << >>
Some(x) == <<x>>
NoFile == << >>

(***************************************************************************)
(* Bounds of the model.                                                    *)
(***************************************************************************)
MaxWindows == 3        \* rows of a window summary handed to classify
NumClusters == 2       \* non-zero cluster ids 1..NumClusters
KeyStep == 10          \* distance between the keys of two neighbouring windows
MaxFrames == 3         \* Frame Results handed to summarize_trajectory
MaxWindowSize == 2     \* window_size ranges over 1..MaxWindowSize
FrameStep == 5         \* the i-th frame id is i * FrameStep
FillDen == 5           \* a filling fraction is m / FillDen with m in 0..FillDen
MaxLines == 4          \* lines of a trajectory file
MaxModelId == 2        \* MODEL records carry an id in 1..MaxModelId
MaxFramesLimit == 2    \* max_frames is None or in 0..MaxFramesLimit

(***************************************************************************)
(* Helpers on sets and sequences.                                          *)
(***************************************************************************)
Min(S) == CHOOSE x \in S : \A y \in S : x <= y
Max(S) == CHOOSE x \in S : \A y \in S : y <= x

\* sorted(S): the members of a finite set of integers in ascending order
RECURSIVE Sorted(_)
Sorted(S) == IF S = {} THEN << >> ELSE <<Min(S)>> \o Sorted(S \ {Min(S)})

\* list(reversed(s))
Reversed(s) == [i \in 1..Len(s) |-> s[Len(s) + 1 - i]]

Range(s) == {s[i] : i \in 1..Len(s)}

\* the first occurrences of the elements of a sequence, in order
RECURSIVE Distinct(_)
Distinct(ids) ==
    IF ids = << >> THEN << >>
    ELSE LET front == Distinct(SubSeq(ids, 1, Len(ids) - 1))
             last == ids[Len(ids)]
         IN  IF last \in Range(front) THEN front ELSE Append(front, last)

(***************************************************************************)
(* Trajectory.classify                                                     *)
(*                                                                         *)
(* A window summary is a record [cols, rows]: cols is the set of cluster   *)
(* ids c for which the table has a column cluster_<c>, and rows maps each  *)
(* window key (the index of the table) to the 0/1 value of every column.   *)
(* A DataFrame's rows are labelled by the index, so the input order of the *)
(* rows is not part of the value; sort_index() yields the ascending keys.  *)
(***************************************************************************)
WindowKeys(k) == {(i - 1) * KeyStep : i \in 1..k}

ColumnSets == SUBSET (0..NumClusters)


\* mutant: cluster_0 is not filtered out
ClusterColumnsAll(df) == df.cols

\* [col for col in summary_df.columns if col.startswith('cluster_') and col != 'cluster_0']
ClusterColumns(df) == {c \in df.cols : c # 0}

\* summary_df.sort_index(): the index in ascending order
SortIndex(df) == Sorted(DOMAIN df.rows)

\* the clusters of cluster_columns whose value in a row is 1
FormedAtFrame(row, cols) == {c \in cols : row[c] = 1}

\* mutant: the all-formed windows are listed from the latest to the earliest
AllFormedFramesLatestFirst(df, index, cols) ==
    Reversed(SelectSeq(index, LAMBDA k : \A c \in cols : df.rows[k][c] = 1))

\* summary_df.index[(summary_df[cluster_columns] == 1).all(axis=1)]
AllFormedFrames(df, index, cols) ==
    SelectSeq(index, LAMBDA k : \A c \in cols : df.rows[k][c] = 1)

\* (summary_df[cluster_columns] == 1).sum(axis=1), for one row
ClusterCount(row, cols) == Cardinality({c \in cols : row[c] = 1})

\* mutant: the check for an all-zero summary is missing
NoClustersFormedIgnored(max_clusters) == FALSE

\* max_clusters == 0
NoClustersFormed(max_clusters) == max_clusters = 0

\* cluster_counts[cluster_counts == max_clusters].index
MaxClusterFrames(df, index, cols, max_clusters) ==
    SelectSeq(index, LAMBDA k : ClusterCount(df.rows[k], cols) = max_clusters)

\* summary_df.index.get_loc(start_frame), 1-based
GetLoc(index, key) == CHOOSE i \in 1..Len(index) : index[i] = key

\* mutant: the difference is taken the wrong way round
BrokenClustersSwapped(formed_before, formed_at_frame) == formed_at_frame \ formed_before

\* currently_formed - formed_at_frame, appended in sorted order
BrokenClusters(formed_before, formed_at_frame) == formed_before \ formed_at_frame

\* mutant: the break order is returned without the reversal
FormationOrderUnreversed(breaks) == breaks

\* list(reversed(cluster_breaks_order))
FormationOrder(breaks) == Reversed(breaks)

\* lines 783-820 as a function of the summary: the exception raised ("none" if
\* none), the cluster columns, the sorted index, the position of the start frame
\* and the clusters formed there
ClassifyStart(df) ==
    LET cols == ClusterColumns(df)
        index == SortIndex(df)
        all_formed_frames == AllFormedFrames(df, index, cols)
        failed(e, sorted) == [error |-> e, cluster_columns |-> cols,
                              sorted_index |-> sorted, start_idx |-> 0,
                              currently_formed |-> {}]
        started(start_frame) ==
            [error |-> "none", cluster_columns |-> cols, sorted_index |-> index,
             start_idx |-> GetLoc(index, start_frame),
             currently_formed |-> FormedAtFrame(df.rows[start_frame], cols)]
    IN  IF cols = {}
        THEN failed("ValueError: no cluster columns", << >>)
        ELSE IF Len(all_formed_frames) = 0
             THEN IF Len(index) = 0
                  \* max() of an empty Series is NaN: NaN == 0 is false, no row has
                  \* the count NaN, and max_cluster_frames[0] raises
                  THEN failed("IndexError", index)
                  ELSE LET max_clusters ==
                               Max({ClusterCount(df.rows[k], cols) : k \in Range(index)})
                       IN  IF NoClustersFormed(max_clusters)
                           THEN failed("ValueError: no clusters formed", index)
                           ELSE started(MaxClusterFrames(df, index, cols, max_clusters)[1])
             ELSE started(all_formed_frames[1])

\* lines 827-850, one iteration of the backward scan at position i: the breaks
\* appended, the new currently_formed, and whether the loop ends here
ScanIteration(df, index, cols, i, formed_before) ==
    LET current_frame == index[i]
        formed_at_frame == FormedAtFrame(df.rows[current_frame], cols)
        broken_clusters == BrokenClusters(formed_before, formed_at_frame)
    IN  [appended |-> Sorted(broken_clusters),
         currently_formed |-> formed_at_frame,
         last |-> (formed_at_frame = {} \/ i = 1)]

\* mutant: the clusters still formed after the scan are not appended
FinalOrderBreaksOnly(breaks, formed) == FormationOrder(breaks)

\* lines 852-859: the clusters still formed are appended, the list is reversed
FinalOrder(breaks, formed) == FormationOrder(breaks \o Sorted(formed))

\* self.native_contacts: the rows i, j, r, cluster of the contact table the
\* Trajectory is constructed with (r and every distance are exact rationals <<n, d>>)
NativeContacts ==
    << [i |-> 1, j |-> 2, r |-> <<5, 1>>, cluster |-> 1],
       [i |-> 1, j |-> 3, r |-> <<5, 1>>, cluster |-> 0] >>

ClassifyIdle ==
    /\ summary_in = [cols |-> {}, rows |-> << >>]
    /\ cluster_columns = {}
    /\ sorted_index = << >>
    /\ start_idx = 0
    /\ idx = 0
    /\ currently_formed = {}
    /\ cluster_breaks_order = << >>
    /\ formation_order = None
    /\ class_file = NoFile

SummarizeIdle ==
    /\ df_in = << >>
    /\ window_size = 1
    /\ cutoff = None
    /\ save_csv = FALSE
    /\ df_sorted = << >>
    /\ window_idx = 0
    /\ summary_data = << >>
    /\ window_frames = << >>
    /\ summary_df = None
    /\ summary_file = NoFile

ReadIdle ==
    /\ pdb_lines = << >>
    /\ max_frames = None
    /\ return_df = FALSE
    /\ line_num = 0
    /\ frames_data = << >>
    /\ current_model = None
    /\ current_residue_coords = << >>
    /\ model_found = FALSE
    /\ model_saved = FALSE
    /\ frame_pos = 0
    /\ results = << >>
    /\ parsed_csv = NoFile
    /\ ret = [kind |-> "unset", rows |-> << >>]

ClusterIdle ==
    /\ contacts = << >>
    /\ cluster_number = 1
    /\ cutoff_size = 1
    /\ kmeans = << >>
    /\ visited = {}
    /\ raw_clusters = << >>
    /\ stack = << >>
    /\ cluster_cur = << >>
    /\ contact_idx = 0
    /\ result_clusters = << >>
    /\ largest_cluster_idx = 0
    /\ split_clusters = << >>
    /\ cluster_column = None
    /\ runs = 0
    /\ previous_column = None

AdjacencyIdle ==
    /\ contact_pair = << >>
    /\ adjacent = None

ClassifyInit ==
    /\ op = "classify"
    /\ pc = "start"
    /\ error = "none"
    /\ native_contacts = NativeContacts
    /\ \E cs \in ColumnSets, k \in 0..MaxWindows :
           \E r \in [WindowKeys(k) -> [cs -> {0, 1}]] : summary_in = [cols |-> cs, rows |-> r]
    /\ cluster_columns = {}
    /\ sorted_index = << >>
    /\ start_idx = 0
    /\ idx = 0
    /\ currently_formed = {}
    /\ cluster_breaks_order = << >>
    /\ formation_order = None
    /\ class_file = NoFile
    /\ SummarizeIdle
    /\ contacts_csv = NoFile
    /\ ReadIdle
    /\ ClusterIdle
    /\ AdjacencyIdle

\* lines 767-820: load the summary, find the start frame or raise
ClassifyBegin ==
    /\ op = "classify"
    /\ pc = "start"
    /\ LET s == ClassifyStart(summary_in)
       IN  /\ error' = s.error
           /\ cluster_columns' = s.cluster_columns
           /\ sorted_index' = s.sorted_index
           /\ start_idx' = s.start_idx
           /\ idx' = s.start_idx
           /\ currently_formed' = s.currently_formed
           /\ pc' = IF s.error = "none" THEN "scan" ELSE "error"
    /\ UNCHANGED <<op, summary_in, cluster_breaks_order, formation_order, class_file,
                   summarizeVars, readVars,
                   clusterVars,
                   adjacencyVars>>

\* lines 826-850: one iteration of "for idx in range(start_idx, -1, -1)"
ClassifyScanStep ==
    /\ op = "classify"
    /\ pc = "scan"
    /\ LET it == ScanIteration(summary_in, sorted_index, cluster_columns, idx,
                               currently_formed)
       IN  /\ cluster_breaks_order' = cluster_breaks_order \o it.appended
           /\ currently_formed' = it.currently_formed
           /\ pc' = IF it.last THEN "finish" ELSE "scan"
           /\ idx' = IF it.last THEN idx ELSE idx - 1
    /\ UNCHANGED <<op, error, summary_in, cluster_columns, sorted_index, start_idx,
                   formation_order, class_file, summarizeVars, readVars,
                   clusterVars,
                   adjacencyVars>>

\* lines 852-877: the clusters still formed, the reversal, the file and the return
ClassifyFinish ==
    /\ op = "classify"
    /\ pc = "finish"
    /\ formation_order' = Some(FinalOrder(cluster_breaks_order, currently_formed))
    /\ class_file' = Some(FinalOrder(cluster_breaks_order, currently_formed))
    /\ cluster_breaks_order' = cluster_breaks_order \o Sorted(currently_formed)
    /\ pc' = "done"
    /\ UNCHANGED <<op, error, summary_in, cluster_columns, sorted_index, start_idx,
                   idx, currently_formed, summarizeVars, readVars,
                   clusterVars,
                   adjacencyVars>>

ClassifyNext == ClassifyBegin \/ ClassifyScanStep \/ ClassifyFinish

SpecClassify == ClassifyInit /\ [][ClassifyNext]_vars

\* classify as a function of the summary: the same steps, run to the end
RECURSIVE ScanFrom(_, _, _, _, _, _)
ScanFrom(df, index, cols, i, formed, breaks) ==
    LET it == ScanIteration(df, index, cols, i, formed)
    IN  IF it.last
        THEN FinalOrder(breaks \o it.appended, it.currently_formed)
        ELSE ScanFrom(df, index, cols, i - 1, it.currently_formed, breaks \o it.appended)

ClassifyRun(df) ==
    LET s == ClassifyStart(df)
    IN  IF s.error # "none"
        THEN [error |-> s.error, start_frame |-> None, formation_order |-> None]
        ELSE [error |-> "none",
              start_frame |-> Some(s.sorted_index[s.start_idx]),
              formation_order |-> Some(ScanFrom(df, s.sorted_index, s.cluster_columns,
                                                s.start_idx, s.currently_formed, << >>))]

(***************************************************************************)
(* Properties of classify.  The definitions below restate the claims from  *)
(* the summary alone; they share no operator with the steps above except   *)
(* the helpers on sets and sequences.                                      *)
(***************************************************************************)
NonZeroColumns == summary_in.cols \ {0}

\* the non-zero clusters whose value is 1 in the window with key k
FormedIn(k) == {c \in NonZeroColumns : summary_in.rows[k][c] = 1}

AllKeys == DOMAIN summary_in.rows

SomeClusterForms == \E k \in AllKeys : FormedIn(k) # {}

\* the key of the anchor window the run has chosen
AnchorKey == sorted_index[start_idx]

\* the list a finished run has returned
Order == formation_order[1]

\* the break sequence of the claim: keys is the non-empty set of windows still to
\* visit, the latest first; formed is currently_formed
RECURSIVE BreakSequence(_, _)
BreakSequence(keys, formed) ==
    LET k == Max(keys)
        appended == Sorted(formed \ FormedIn(k))
    IN  IF FormedIn(k) = {} THEN appended
        ELSE IF keys = {k} THEN appended \o Sorted(FormedIn(k))
        ELSE appended \o BreakSequence(keys \ {k}, FormedIn(k))

\* C1: whenever some non-zero cluster equals 1 in some window, classify returns
\* (it does not raise), and what it returns is exactly the reverse of the break
\* sequence: start from the clusters formed at the anchor, visit the windows from
\* the anchor down to the earliest, append at each the clusters lost there in
\* ascending id, stop when nothing is formed, and at the earliest window append
\* what is still formed.
C1_ReturnsReversedBreakSequence ==
    op = "classify" =>
        /\ (pc = "error" => ~SomeClusterForms)
        /\ (pc = "done" =>
               /\ SomeClusterForms
               /\ Order = Reversed(BreakSequence({k \in AllKeys : k <= AnchorKey},
                                                 FormedIn(AnchorKey))))

\* a run that visited three windows and appended the survivors at the earliest one
C1_Witness ==
    /\ op = "classify"
    /\ pc = "done"
    /\ start_idx = 3
    /\ idx = 1
    /\ currently_formed # {}
    /\ Len(Order) >= 2

\* C2: the returned Formation Order is no longer than the number of distinct
\* non-zero cluster columns of the summary.
C2_OrderNoLongerThanClusters ==
    (op = "classify" /\ pc = "done") => Len(Order) <= Cardinality(NonZeroColumns)

\* the window in which cluster c first equals 1
FirstFormed(c) == Min({k \in AllKeys : c \in FormedIn(k)})

EverFormed == {c \in NonZeroColumns : \E k \in AllKeys : c \in FormedIn(k)}

\* every cluster, once 1, stays 1 in all later windows up to the anchor
StaysFormedUpTo(anchor) ==
    \A c \in NonZeroColumns : \A k1, k2 \in AllKeys :
        (k1 < k2 /\ k2 <= anchor /\ c \in FormedIn(k1)) => c \in FormedIn(k2)

DistinctFirstWindows ==
    \A c, d \in EverFormed : c # d => FirstFormed(c) # FirstFormed(d)

ScenarioC ==
    [cols |-> {1, 2},
     rows |-> (0 :> (1 :> 0 @@ 2 :> 0)) @@ (10 :> (1 :> 1 @@ 2 :> 0))
              @@ (20 :> (1 :> 1 @@ 2 :> 1))]

\* C3: when every cluster stays 1 once formed (up to the anchor) and no two
\* clusters first form in the same window, the returned list holds the clusters
\* formed by the anchor window, each once, in ascending order of the window in
\* which they first become 1; scenario C gives anchor 20 and order [1, 2].
C3_MonotoneEarliestFirst ==
    (op = "classify" /\ pc = "done") =>
        /\ (StaysFormedUpTo(AnchorKey) /\ DistinctFirstWindows) =>
               /\ \A i, j \in 1..Len(Order) :
                      i < j => FirstFormed(Order[i]) < FirstFormed(Order[j])
               /\ Range(Order) = {c \in EverFormed : FirstFormed(c) <= AnchorKey}
        /\ summary_in = ScenarioC => (AnchorKey = 20 /\ Order = <<1, 2>>)

C3_Witness ==
    /\ op = "classify"
    /\ pc = "done"
    /\ summary_in = ScenarioC
    /\ Order = <<1, 2>>

\* C4: when no non-zero cluster equals 1 in any window, or there is no non-zero
\* cluster column, classify never gets past its start: it ends in an error,
\* returns no order and leaves the formation-order file as it was; and in every
\* run the file holds something only once the order has been computed and
\* returned, and then it holds that order.
C4_NoOrderNoFile ==
    op = "classify" =>
        /\ (~SomeClusterForms \/ NonZeroColumns = {}) =>
               /\ pc \in {"start", "error"}
               /\ formation_order = None
               /\ class_file = NoFile
        /\ pc = "error" => (error # "none" /\ formation_order = None /\ class_file = NoFile)
        /\ class_file # NoFile => (pc = "done" /\ class_file = formation_order)

C4_Witness ==
    /\ op = "classify"
    /\ pc = "error"
    /\ error = "ValueError: no clusters formed"
    /\ Len(sorted_index) >= 2
    /\ class_file = NoFile

\* the same summary with the column cluster_0 replaced by the values alt
WithCluster0(df, alt) ==
    [cols |-> df.cols,
     rows |-> [k \in DOMAIN df.rows |->
                  [c \in df.cols |-> IF c = 0 THEN alt[k] ELSE df.rows[k][c]]]]

\* C5: cluster id 0 never appears in the Formation Order, and every summary that
\* differs from the one classified only in the values of column cluster_0 gives
\* the same anchor window and the same Formation Order, or fails as well.
C5_ClusterZeroIgnored ==
    (op = "classify" /\ pc \in {"done", "error"}) =>
        /\ pc = "done" => 0 \notin Range(Order)
        /\ \A alt \in [AllKeys -> {0, 1}] :
               LET other == ClassifyRun(WithCluster0(summary_in, alt))
               IN  IF pc = "done"
                   THEN /\ other.error = "none"
                        /\ other.start_frame = Some(AnchorKey)
                        /\ other.formation_order = formation_order
                   ELSE other.error # "none"

\* a successful run on a summary whose cluster_0 column is neither all 0 nor all 1
C5_Witness ==
    /\ op = "classify"
    /\ pc = "done"
    /\ 0 \in summary_in.cols
    /\ \E k1, k2 \in AllKeys : summary_in.rows[k1][0] = 0 /\ summary_in.rows[k2][0] = 1
    /\ Len(Order) >= 2

(***************************************************************************)
(* Trajectory.summarize_trajectory                                         *)
(*                                                                         *)
(* df is a list of rows [frame, clusters_filling] with distinct frame ids. *)
(* A filling fraction is the exact rational m / FillDen and is held as its *)
(* numerator m; a window mean is the exact rational <<n, d>> (n / d), not  *)
(* reduced.  Floating-point rounding of np.mean is not modelled.           *)
(***************************************************************************)
\* sorted(self.cluster_contacts.keys()): the cluster ids of the contact table
SummaryClusters == {native_contacts[n].cluster : n \in 1..Len(native_contacts)}

\* the filling numerators a frame may hold for cluster c
FillNums(c) == IF c = 0 THEN {0, FillDen} ELSE {0, 2, 3, FillDen}

FrameId(i) == i * FrameStep

\* the rows s[r+1..], s[1..r]: an input order other than ascending
Rotate(s, r) == [i \in 1..Len(s) |-> s[((i - 1 + r) % Len(s)) + 1]]

Cutoffs == {<<1, 2>>}

RECURSIVE SumSeq(_)
SumSeq(s) == IF s = << >> THEN 0 ELSE Head(s) + SumSeq(Tail(s))

\* mutant: an empty DataFrame is not rejected
DfEmptyIgnored(df) == FALSE

\* df.empty
DfEmpty(df) == Len(df) = 0

\* df.sort_values('frame').reset_index(drop=True)
SortValues(df) ==
    LET frames == Sorted({df[i].frame : i \in 1..Len(df)})
    IN  [i \in 1..Len(df) |-> df[CHOOSE j \in 1..Len(df) : df[j].frame = frames[i]]]

\* mutant: floor instead of ceiling division
NumWindowsFloor(total_frames, size) == total_frames \div size

\* (total_frames + window_size - 1) // window_size
NumWindows(total_frames, size) == (total_frames + size - 1) \div size

\* df.iloc[start_idx:end_idx] with end_idx = min(start_idx + window_size, total_frames)
WindowDf(df, w_idx, size) ==
    LET start == w_idx * size
        end == IF start + size < Len(df) THEN start + size ELSE Len(df)
    IN  SubSeq(df, start + 1, end)

\* clusters_dict.get(cluster_num, 0.0)
GetFilling(clusters_dict, cluster_num) ==
    IF cluster_num \in DOMAIN clusters_dict THEN clusters_dict[cluster_num] ELSE 0

\* mutant: the sum is divided by window_size, not by the number of frames
MeanFractionBySize(cluster_values) ==
    IF Len(cluster_values) = 0 THEN <<0, 1>>
    ELSE <<SumSeq(cluster_values), window_size * FillDen>>

\* np.mean(cluster_values) if cluster_values else 0.0
MeanFraction(cluster_values) ==
    IF Len(cluster_values) = 0 THEN <<0, 1>>
    ELSE <<SumSeq(cluster_values), Len(cluster_values) * FillDen>>

\* lines 603-626: the summary of one window
WindowSummary(window_df, clusters) ==
    [frame |-> window_df[1].frame,
     values |-> [c \in clusters |->
                    MeanFraction([i \in 1..Len(window_df) |->
                                     GetFilling(window_df[i].clusters_filling, c)])]]

\* mutant: strict threshold
BinarizeStrict(mean, cut) == IF mean[1] * cut[2] > cut[1] * mean[2] THEN 1 ELSE 0

\* (summary_df[col] >= cutoff).astype(int), for one value
Binarize(mean, cut) == IF mean[1] * cut[2] >= cut[1] * mean[2] THEN 1 ELSE 0

\* lines 630-641: the DataFrame of the window summaries, indexed by frame,
\* binarized when a cutoff is given
SummaryDf(data, clusters, cut) ==
    [index |-> [i \in 1..Len(data) |-> data[i].frame],
     cols |-> clusters,
     rows |-> [k \in {data[i].frame : i \in 1..Len(data)} |->
                  LET w == data[CHOOSE i \in 1..Len(data) : data[i].frame = k]
                  IN  [c \in clusters |->
                          IF cut = None THEN w.values[c]
                          ELSE Binarize(w.values[c], cut[1])]]]

SummarizeInit ==
    /\ op = "summarize"
    /\ pc = "start"
    /\ error = "none"
    /\ native_contacts = NativeContacts
    /\ \E n \in 0..MaxFrames :
           \E fills \in [1..n -> {f \in [SummaryClusters -> 0..FillDen] :
                                     \A c \in SummaryClusters : f[c] \in FillNums(c)}] :
               \E r \in 0..(IF n = 0 THEN 0 ELSE n - 1) :
                   df_in = Rotate([i \in 1..n |-> [frame |-> FrameId(i),
                                                    clusters_filling |-> fills[i]]], r)
    /\ window_size \in 1..MaxWindowSize
    /\ cutoff \in {None} \cup {Some(c) : c \in Cutoffs}
    /\ save_csv \in BOOLEAN
    /\ df_sorted = << >>
    /\ window_idx = 0
    /\ summary_data = << >>
    /\ window_frames = << >>
    /\ summary_df = None
    /\ summary_file = NoFile
    /\ contacts_csv = NoFile
    /\ ClassifyIdle
    /\ ReadIdle
    /\ ClusterIdle
    /\ AdjacencyIdle

\* lines 583-597: reject an empty DataFrame, sort by frame, count the windows
\* (df is given by the caller; with df=None lines 564-581 first load it from a file)
SummarizeBegin ==
    /\ op = "summarize"
    /\ pc = "start"
    /\ IF DfEmpty(df_in)
       THEN /\ pc' = "error"
            /\ error' = "ValueError: DataFrame is empty"
            /\ UNCHANGED df_sorted
       ELSE /\ df_sorted' = SortValues(df_in)
            /\ pc' = IF NumWindows(Len(df_in), window_size) > 0 THEN "window" ELSE "finish"
            /\ UNCHANGED error
    /\ UNCHANGED <<op, df_in, window_size, cutoff, save_csv, contacts_csv, window_idx, summary_data,
                   window_frames, summary_df, summary_file, classifyVars, readVars,
                   clusterVars,
                   adjacencyVars>>

\* lines 599-628: one iteration of "for window_idx in range(num_windows)"
SummarizeWindow ==
    /\ op = "summarize"
    /\ pc = "window"
    /\ LET window_df == WindowDf(df_sorted, window_idx, window_size)
       IN  /\ summary_data' = Append(summary_data, WindowSummary(window_df, SummaryClusters))
           /\ window_frames' = Append(window_frames,
                                      [i \in 1..Len(window_df) |-> window_df[i].frame])
    /\ window_idx' = window_idx + 1
    /\ pc' = IF window_idx + 1 < NumWindows(Len(df_sorted), window_size)
             THEN "window" ELSE "finish"
    /\ UNCHANGED <<op, error, df_in, window_size, cutoff, save_csv, contacts_csv, df_sorted,
                   summary_df, summary_file, classifyVars, readVars,
                   clusterVars,
                   adjacencyVars>>

\* lines 630-658: build the summary, binarize, save, return
SummarizeFinish ==
    /\ op = "summarize"
    /\ pc = "finish"
    /\ summary_df' = Some(SummaryDf(summary_data, SummaryClusters, cutoff))
    /\ summary_file' = IF save_csv
                       THEN Some(SummaryDf(summary_data, SummaryClusters, cutoff))
                       ELSE summary_file
    /\ pc' = "done"
    /\ UNCHANGED <<op, error, df_in, window_size, cutoff, save_csv, contacts_csv, df_sorted,
                   window_idx, summary_data, window_frames, classifyVars, readVars,
                   clusterVars,
                   adjacencyVars>>

SummarizeNext == SummarizeBegin \/ SummarizeWindow \/ SummarizeFinish

SpecSummarize == SummarizeInit /\ [][SummarizeNext]_vars

(***************************************************************************)
(* Properties of summarize_trajectory, restated from the input df_in, the  *)
(* window size and the cutoff alone.                                       *)
(***************************************************************************)
TotalFrames == Len(df_in)

\* the frame ids of the input in ascending order
AscendingFrames == Sorted({df_in[i].frame : i \in 1..Len(df_in)})

\* the filling numerator of cluster c in the input row of frame f
InputFilling(f, c) ==
    df_in[CHOOSE i \in 1..Len(df_in) : df_in[i].frame = f].clusters_filling[c]

\* ceil(n / w): the least m with n <= m * w
CeilDiv(n, w) == CHOOSE m \in 0..n : n <= m * w /\ \A k \in 0..n : n <= k * w => m <= k

\* the frames of the i-th consecutive run of window_size ascending frames
RunOfFrames(i) ==
    SubSeq(AscendingFrames, (i - 1) * window_size + 1,
           IF i * window_size < TotalFrames THEN i * window_size ELSE TotalFrames)

RECURSIVE Concat(_)
Concat(ss) == IF ss = << >> THEN << >> ELSE Head(ss) \o Concat(Tail(ss))

\* the sum of the filling numerators of cluster c over the frames fs
RECURSIVE TotalFilling(_, _)
TotalFilling(fs, c) ==
    IF fs = << >> THEN 0 ELSE InputFilling(Head(fs), c) + TotalFilling(Tail(fs), c)

Summary == summary_df[1]

\* C6: for n >= 1 frames and window size w the summarizer builds ceil(n/w)
\* windows that cut the ascending frame sequence into consecutive runs: every
\* window but the last holds w frames, the last holds n mod w (w when w divides
\* n), and the frame counts add up to n.
C6_WindowsPartitionFrames ==
    (op = "summarize" /\ pc = "done") =>
        LET m == Len(window_frames)
        IN  /\ TotalFrames >= 1
            /\ m = CeilDiv(TotalFrames, window_size)
            /\ Len(Summary.index) = m
            /\ \A i \in 1..(m - 1) : Len(window_frames[i]) = window_size
            /\ Len(window_frames[m]) = IF TotalFrames % window_size = 0
                                       THEN window_size
                                       ELSE TotalFrames % window_size
            /\ SumSeq([i \in 1..m |-> Len(window_frames[i])]) = TotalFrames
            /\ Concat(window_frames) = AscendingFrames

\* three frames in windows of two: the last window is short
C6_Witness ==
    /\ op = "summarize"
    /\ pc = "done"
    /\ TotalFrames = 3
    /\ window_size = 2
    /\ Len(window_frames) = 2
    /\ Len(window_frames[2]) = 1

\* C7: without a cutoff, the i-th window of the summary is keyed by the lowest
\* frame id of the i-th run of ascending frames, whatever the input order, and
\* its value for each cluster is the arithmetic mean of that cluster's filling
\* fraction over exactly the frames of that run.
C7_FloatWindowKeyAndMean ==
    (op = "summarize" /\ pc = "done" /\ cutoff = None) =>
        /\ Len(Summary.index) = CeilDiv(TotalFrames, window_size)
        /\ \A i \in 1..Len(Summary.index) :
               LET members == RunOfFrames(i)
                   key == Summary.index[i]
               IN  /\ key = Min(Range(members))
                   /\ key = members[1]
                   /\ \A c \in SummaryClusters :
                          LET v == Summary.rows[key][c]
                          IN  /\ v[2] > 0
                              /\ v[1] * (Len(members) * FillDen)
                                     = v[2] * TotalFilling(members, c)

\* a float summary of three frames given out of order, the last window short
C7_Witness ==
    /\ op = "summarize"
    /\ pc = "done"
    /\ cutoff = None
    /\ TotalFrames = 3
    /\ window_size = 2
    /\ df_in[1].frame > df_in[2].frame
    /\ \E k \in DOMAIN Summary.rows : Summary.rows[k][1] = <<5, 2 * FillDen>>

\* scenario B: cluster-1 fillings 0.4, 0.6, 1.0 in windows of two, cutoff 0.5
ScenarioB ==
    /\ FillDen = 5
    /\ TotalFrames = 3
    /\ window_size = 2
    /\ cutoff = Some(<<1, 2>>)
    /\ [i \in 1..3 |-> InputFilling(AscendingFrames[i], 1)] = <<2, 3, 5>>

\* C8: with a cutoff n/d, the summary has the keys of the float summary (the
\* first frame of each run) and each value is 1 if the mean of the run is
\* >= n/d and 0 otherwise: the threshold is inclusive and applies to the window
\* mean; scenario B gives the values 1 and 1.
C8_BinaryIsThresholdOfMean ==
    (op = "summarize" /\ pc = "done" /\ cutoff # None) =>
        /\ Len(Summary.index) = CeilDiv(TotalFrames, window_size)
        /\ \A i \in 1..Len(Summary.index) :
               LET members == RunOfFrames(i)
                   key == Summary.index[i]
                   cut == cutoff[1]
               IN  /\ key = members[1]
                   /\ \A c \in SummaryClusters :
                          Summary.rows[key][c] =
                              IF TotalFilling(members, c) * cut[2]
                                     >= cut[1] * (Len(members) * FillDen)
                              THEN 1 ELSE 0
        /\ ScenarioB => [i \in 1..2 |-> Summary.rows[Summary.index[i]][1]] = <<1, 1>>

C8_Witness ==
    /\ op = "summarize"
    /\ pc = "done"
    /\ ScenarioB
    /\ [i \in 1..2 |-> Summary.rows[Summary.index[i]][1]] = <<1, 1>>

\* C9: given an empty Frame Result sequence, summarize_trajectory ends in the
\* empty-data error, builds no window (not even an empty one), returns nothing
\* and writes no summary file; it raises that error for no other input.
C9_EmptyInputRejected ==
    op = "summarize" =>
        /\ TotalFrames = 0 =>
               /\ pc \in {"start", "error"}
               /\ summary_data = << >>
               /\ window_frames = << >>
               /\ summary_df = None
               /\ summary_file = NoFile
        /\ pc = "error" => (TotalFrames = 0 /\ error = "ValueError: DataFrame is empty")

C9_Witness ==
    /\ op = "summarize"
    /\ pc = "error"
    /\ error = "ValueError: DataFrame is empty"
    /\ TotalFrames = 0
    /\ save_csv
    /\ summary_file = NoFile

(***************************************************************************)
(* Trajectory._read_pdb_manual and Trajectory.read_trajectory              *)
(*                                                                         *)
(* A line of the trajectory file is a MODEL record with its id, a CA ATOM  *)
(* record with its residue number and coordinates, an ENDMDL record, or    *)
(* any other line.  Coordinates are integer triples; a distance is         *)
(* compared through its square, and r and cutoff_distance are the exact    *)
(* rationals <<n, d>>.                                                     *)
(***************************************************************************)
\* the coordinates a CA record of residue res may carry
Coordinates(res) == IF res = 1 THEN {<<0, 0, 0>>} ELSE {<<3, 4, 0>>, <<6, 0, 0>>}

LineAlphabet ==
    {[kind |-> "MODEL", id |-> m, res |-> 0, xyz |-> <<0, 0, 0>>] : m \in 1..MaxModelId}
    \cup UNION {{[kind |-> "CA", id |-> 0, res |-> r, xyz |-> x] : x \in Coordinates(r)}
                : r \in {1, 2}}
    \cup {[kind |-> k, id |-> 0, res |-> 0, xyz |-> <<0, 0, 0>>] : k \in {"ENDMDL", "OTHER"}}

\* a contact table of six contacts in two adjacency clusters of three
ScenarioAContacts ==
    << [i |-> 1, j |-> 5, r |-> <<5, 1>>, cluster |-> 1],
       [i |-> 1, j |-> 6, r |-> <<5, 1>>, cluster |-> 1],
       [i |-> 2, j |-> 6, r |-> <<5, 1>>, cluster |-> 1],
       [i |-> 1, j |-> 9, r |-> <<5, 1>>, cluster |-> 2],
       [i |-> 1, j |-> 10, r |-> <<5, 1>>, cluster |-> 2],
       [i |-> 2, j |-> 10, r |-> <<5, 1>>, cluster |-> 2] >>

\* the contact tables a Trajectory is constructed with (one has no rows)
ContactTables == {NativeContacts, ScenarioAContacts, << >>}

\* cutoff_distance: float = 1.2
CutoffDistance == <<6, 5>>

\* self.cluster_contacts.keys()
ClusterContactsKeys == {native_contacts[n].cluster : n \in 1..Len(native_contacts)}

\* self.cluster_sizes[cluster]
ClusterSizesTotal(cluster) == Len(native_contacts)

ClusterSizes(cluster) ==
    Cardinality({n \in 1..Len(native_contacts) : native_contacts[n].cluster = cluster})

\* mutant: a frame stored under an id already present is merged into the old map
StoreFrameMerged(data, model, coords) ==
    IF model \in DOMAIN data
    THEN (model :> (coords @@ data[model])) @@ data
    ELSE (model :> coords) @@ data

\* frames_data[model] = coords
StoreFrame(data, model, coords) == (model :> coords) @@ data

\* max_frames is not None and len(frames_data) > max_frames
LimitReachedStrict(data, limit) == limit # None /\ Cardinality(DOMAIN data) > limit[1]

\* max_frames is not None and len(frames_data) >= max_frames
LimitReached(data, limit) == limit # None /\ Cardinality(DOMAIN data) >= limit[1]

\* not frames_data
NoFrames(data) == DOMAIN data = {}

\* the square of np.linalg.norm(coord_i - coord_j)
DistanceSquared(a, b) ==
    (a[1] - b[1]) * (a[1] - b[1]) + (a[2] - b[2]) * (a[2] - b[2])
        + (a[3] - b[3]) * (a[3] - b[3])

\* both residues present and distance <= r_native * cutoff_distance
ContactExistsInclusive(contact, residue_coords, cutoff_distance) ==
    /\ contact.i \in DOMAIN residue_coords
    /\ contact.j \in DOMAIN residue_coords
    /\ LET d2 == DistanceSquared(residue_coords[contact.i], residue_coords[contact.j])
           num == contact.r[1] * cutoff_distance[1]
           den == contact.r[2] * cutoff_distance[2]
       IN  d2 * den * den <= num * num

\* lines 220-227: both residues present and distance < r_native * cutoff_distance
ContactExists(contact, residue_coords, cutoff_distance) ==
    /\ contact.i \in DOMAIN residue_coords
    /\ contact.j \in DOMAIN residue_coords
    /\ LET d2 == DistanceSquared(residue_coords[contact.i], residue_coords[contact.j])
           num == contact.r[1] * cutoff_distance[1]
           den == contact.r[2] * cutoff_distance[2]
       IN  d2 * den * den < num * num

\* lines 222-227: existing_contacts and cluster_counts of one frame
ExistingContacts(residue_coords) ==
    SelectSeq(native_contacts, LAMBDA c : ContactExists(c, residue_coords, CutoffDistance))

ClusterCounts(existing) ==
    [c \in ClusterContactsKeys |->
        Cardinality({n \in 1..Len(existing) : existing[n].cluster = c})]

\* lines 229-232: q = contacts_count / total_contacts, 0.0 without contacts
QValueUnguarded(contacts_count, total_contacts) == <<contacts_count, total_contacts>>

QValue(contacts_count, total_contacts) ==
    IF total_contacts > 0 THEN <<contacts_count, total_contacts>> ELSE <<0, 1>>

\* lines 234-241: count / cluster_size, 0.0 for a cluster of size 0
ClustersFilling(cluster_counts) ==
    [c \in ClusterContactsKeys |->
        IF ClusterSizes(c) > 0 THEN <<cluster_counts[c], ClusterSizes(c)>> ELSE <<0, 1>>]

\* lines 207-249: the Frame Result of one frame
FrameResult(frame_num, residue_coords) ==
    LET existing == ExistingContacts(residue_coords)
    IN  [frame |-> frame_num,
         contacts |-> Len(existing),
         q |-> QValue(Len(existing), Len(native_contacts)),
         contact_list |-> [n \in 1..Len(existing) |-> <<existing[n].i, existing[n].j>>],
         clusters_filling |-> ClustersFilling(ClusterCounts(existing))]

\* the keys of cluster_counts and clusters_filling in insertion order: the
\* cluster ids in the order of their first row in the contact table
ClusterKeyOrder == Distinct([n \in 1..Len(native_contacts) |-> native_contacts[n].cluster])

\* str(x) of a list and of a dict: the text of its items in order
ListStr(x) == [text |-> "list", items |-> x]

DictStr(x) ==
    LET keys == SelectSeq(ClusterKeyOrder, LAMBDA k : k \in DOMAIN x)
    IN  [text |-> "dict", items |-> [n \in 1..Len(keys) |-> [key |-> keys[n], value |-> x[keys[n]]]]]

\* lines 276-281: the table written by to_csv, contact_list and
\* clusters_filling as strings
ToCsv(df) ==
    [n \in 1..Len(df) |->
        [frame |-> df[n].frame,
         contacts |-> df[n].contacts,
         q |-> df[n].q,
         contact_list |-> ListStr(df[n].contact_list),
         clusters_filling |-> DictStr(df[n].clusters_filling)]]

\* sorted(frames_data.keys())
SortedFrameNums(data) == Sorted(DOMAIN data)

\* df.sort_values('frame', ascending=False) on the Frame Results
SortResultsDescending(rows) ==
    LET frames == Reversed(Sorted({rows[n].frame : n \in 1..Len(rows)}))
    IN  [n \in 1..Len(rows) |-> rows[CHOOSE k \in 1..Len(rows) : rows[k].frame = frames[n]]]

\* df.sort_values('frame').reset_index(drop=True) on the Frame Results
SortResults(rows) ==
    LET frames == Sorted({rows[n].frame : n \in 1..Len(rows)})
    IN  [n \in 1..Len(rows) |-> rows[CHOOSE k \in 1..Len(rows) : rows[k].frame = frames[n]]]

ReadInit ==
    /\ op = "read"
    /\ pc = "lines"
    /\ error = "none"
    /\ \E n \in 0..MaxLines : pdb_lines \in [1..n -> LineAlphabet]
    /\ native_contacts = NativeContacts
    /\ max_frames \in {None} \cup {Some(m) : m \in 0..MaxFramesLimit}
    /\ return_df \in BOOLEAN
    /\ line_num = 0
    /\ frames_data = << >>
    /\ current_model = None
    /\ current_residue_coords = << >>
    /\ model_found = FALSE
    /\ model_saved = FALSE
    /\ frame_pos = 0
    /\ results = << >>
    /\ parsed_csv = NoFile
    /\ ret = [kind |-> "unset", rows |-> << >>]
    /\ ClassifyIdle
    /\ SummarizeIdle
    /\ contacts_csv = NoFile
    /\ ClusterIdle
    /\ AdjacencyIdle

NextLine == pdb_lines[line_num + 1]

ReadingLine(kind) ==
    /\ op = "read"
    /\ pc = "lines"
    /\ line_num < Len(pdb_lines)
    /\ NextLine.kind = kind
    /\ line_num' = line_num + 1

\* mutant: a MODEL record does not start the new model with an empty map
ReadModelLineKeepCoords ==
    /\ ReadingLine("MODEL")
    /\ model_found' = TRUE
    /\ LET data == IF current_model # None /\ ~model_saved
                   THEN StoreFrame(frames_data, current_model[1], current_residue_coords)
                   ELSE frames_data
       IN  /\ frames_data' = data
           /\ IF LimitReached(data, max_frames)
              THEN /\ pc' = "eof"
                   /\ UNCHANGED <<current_model, current_residue_coords, model_saved>>
              ELSE /\ pc' = "lines"
                   /\ current_model' = Some(NextLine.id)
                   /\ UNCHANGED current_residue_coords
                   /\ model_saved' = FALSE
    /\ UNCHANGED <<op, error, pdb_lines, native_contacts, max_frames,
                   return_df, frame_pos, results,
                   parsed_csv, ret, classifyVars, summarizeVars,
                   clusterVars,
                   adjacencyVars>>

\* lines 96-111: a MODEL record
ReadModelLine ==
    /\ ReadingLine("MODEL")
    /\ model_found' = TRUE
    /\ LET data == IF current_model # None /\ ~model_saved
                   THEN StoreFrame(frames_data, current_model[1], current_residue_coords)
                   ELSE frames_data
       IN  /\ frames_data' = data
           /\ IF LimitReached(data, max_frames)
              THEN /\ pc' = "eof"                              \* break
                   /\ UNCHANGED <<current_model, current_residue_coords, model_saved>>
              ELSE /\ pc' = "lines"
                   /\ current_model' = Some(NextLine.id)
                   /\ current_residue_coords' = << >>
                   /\ model_saved' = FALSE
    /\ UNCHANGED <<op, error, pdb_lines, native_contacts, max_frames,
                   return_df, frame_pos, results,
                   parsed_csv, ret, classifyVars, summarizeVars,
                   clusterVars,
                   adjacencyVars>>

\* lines 113-120: a CA ATOM record
ReadAtomLine ==
    /\ ReadingLine("CA")
    /\ current_residue_coords' = (NextLine.res :> NextLine.xyz) @@ current_residue_coords
    /\ pc' = "lines"
    /\ UNCHANGED <<op, error, pdb_lines, native_contacts, max_frames,
                   return_df, frames_data, current_model,
                   model_found, model_saved, frame_pos, results, parsed_csv, ret,
                   classifyVars, summarizeVars,
                   clusterVars,
                   adjacencyVars>>

\* lines 122-133: an ENDMDL record
ReadEndmdlLine ==
    /\ ReadingLine("ENDMDL")
    /\ LET save == current_model # None /\ ~model_saved
           data == IF save
                   THEN StoreFrame(frames_data, current_model[1], current_residue_coords)
                   ELSE frames_data
       IN  /\ frames_data' = data
           /\ model_saved' = IF save THEN TRUE ELSE model_saved
           /\ current_residue_coords' = IF save THEN << >> ELSE current_residue_coords
           /\ pc' = IF LimitReached(data, max_frames) THEN "eof" ELSE "lines"
    /\ UNCHANGED <<op, error, pdb_lines, native_contacts, max_frames,
                   return_df, current_model, model_found,
                   frame_pos, results, parsed_csv, ret, classifyVars, summarizeVars,
                   clusterVars,
                   adjacencyVars>>

\* any other line is skipped
ReadOtherLine ==
    /\ ReadingLine("OTHER")
    /\ pc' = "lines"
    /\ UNCHANGED <<op, error, pdb_lines, native_contacts, max_frames,
                   return_df, frames_data, current_model,
                   current_residue_coords, model_found, model_saved, frame_pos, results,
                   parsed_csv, ret, classifyVars, summarizeVars,
                   clusterVars,
                   adjacencyVars>>

\* lines 135-145: after the loop (end of file or break), the last model
ReadPdbEnd ==
    /\ op = "read"
    /\ \/ pc = "lines" /\ line_num = Len(pdb_lines)
       \/ pc = "eof"
    /\ frames_data' =
           IF ~LimitReached(frames_data, max_frames)
           THEN IF current_model # None /\ ~model_saved /\ DOMAIN current_residue_coords # {}
                THEN StoreFrame(frames_data, current_model[1], current_residue_coords)
                ELSE IF ~model_found /\ DOMAIN current_residue_coords # {}
                     THEN StoreFrame(frames_data, 1, current_residue_coords)
                     ELSE frames_data
           ELSE frames_data
    /\ pc' = "loaded"
    /\ UNCHANGED <<op, error, pdb_lines, native_contacts, max_frames,
                   return_df, line_num, current_model,
                   current_residue_coords, model_found, model_saved, frame_pos, results,
                   parsed_csv, ret, classifyVars, summarizeVars,
                   clusterVars,
                   adjacencyVars>>

\* lines 177-184: read_trajectory once _read_pdb_manual has returned
ReadTrajectoryBegin ==
    /\ op = "read"
    /\ pc = "loaded"
    /\ IF NoFrames(frames_data)
       THEN /\ ret' = [kind |-> "None", rows |-> << >>]        \* return None
            /\ pc' = "done"
       ELSE /\ pc' = "frames"
            /\ UNCHANGED ret
    /\ UNCHANGED <<op, error, pdb_lines, native_contacts, max_frames,
                   return_df, line_num, frames_data,
                   current_model, current_residue_coords, model_found, model_saved,
                   frame_pos, results, parsed_csv, classifyVars, summarizeVars,
                   clusterVars,
                   adjacencyVars>>

\* lines 206-252: one iteration of "for frame_num in sorted_frame_nums"
ReadEvalFrame ==
    /\ op = "read"
    /\ pc = "frames"
    /\ frame_pos < Len(SortedFrameNums(frames_data))
    /\ LET frame_num == SortedFrameNums(frames_data)[frame_pos + 1]
       IN  results' = Append(results, FrameResult(frame_num, frames_data[frame_num]))
    /\ frame_pos' = frame_pos + 1
    /\ UNCHANGED <<op, pc, error, pdb_lines, native_contacts, max_frames,
                   return_df, line_num, frames_data,
                   current_model, current_residue_coords, model_found, model_saved,
                   parsed_csv, ret, classifyVars, summarizeVars,
                   clusterVars,
                   adjacencyVars>>

\* lines 254-286: the DataFrame, sorted by frame, saved (save_csv=True) and returned
ReadTrajectoryFinish ==
    /\ op = "read"
    /\ pc = "frames"
    /\ frame_pos = Len(SortedFrameNums(frames_data))
    /\ LET df == SortResults(results)
       IN  /\ parsed_csv' = IF Len(df) > 0 THEN Some(ToCsv(df)) ELSE parsed_csv
           /\ ret' = IF return_df THEN [kind |-> "DataFrame", rows |-> df]
                     ELSE [kind |-> "None", rows |-> << >>]
    /\ pc' = "done"
    /\ UNCHANGED <<op, error, pdb_lines, native_contacts, max_frames,
                   return_df, line_num, frames_data,
                   current_model, current_residue_coords, model_found, model_saved,
                   frame_pos, results, classifyVars, summarizeVars,
                   clusterVars,
                   adjacencyVars>>

ReadNext ==
    \/ ReadModelLine
    \/ ReadAtomLine
    \/ ReadEndmdlLine
    \/ ReadOtherLine
    \/ ReadPdbEnd
    \/ ReadTrajectoryBegin
    \/ ReadEvalFrame
    \/ ReadTrajectoryFinish

SpecRead == ReadInit /\ [][ReadNext]_vars

(***************************************************************************)
(* The frame evaluation of read_trajectory on one-model files: a header    *)
(* line, a MODEL record, one CA record for each residue present, ENDMDL.   *)
(* The contact table is any of ContactTables; the residues take one of two *)
(* placements and any subset of them is present in the file.               *)
(***************************************************************************)
EvalResidues == {1, 2, 5, 6, 9, 10}

\* residue -> coordinates: in the first every pair of cluster 1 is closer than
\* 6 and every pair of cluster 2 farther; in the second (1,5) and (1,9) are
\* at distance exactly 6
Placements ==
    { (1 :> <<0, 0, 0>>) @@ (2 :> <<1, 0, 0>>) @@ (5 :> <<5, 0, 0>>) @@ (6 :> <<4, 0, 0>>)
          @@ (9 :> <<20, 0, 0>>) @@ (10 :> <<21, 0, 0>>),
      (1 :> <<0, 0, 0>>) @@ (2 :> <<0, 0, 1>>) @@ (5 :> <<6, 0, 0>>) @@ (6 :> <<3, 4, 0>>)
          @@ (9 :> <<0, 6, 0>>) @@ (10 :> <<0, 3, 4>>) }

\* the lines of the file holding model id with the residues present at place
PdbFile(id, present, place) ==
    LET residues == Sorted(present)
    IN  << [kind |-> "OTHER", id |-> 0, res |-> 0, xyz |-> <<0, 0, 0>>],
           [kind |-> "MODEL", id |-> id, res |-> 0, xyz |-> <<0, 0, 0>>] >>
        \o [n \in 1..Len(residues) |->
               [kind |-> "CA", id |-> 0, res |-> residues[n], xyz |-> place[residues[n]]]]
        \o << [kind |-> "ENDMDL", id |-> 0, res |-> 0, xyz |-> <<0, 0, 0>>] >>

\* the state in which read_trajectory is called on such a file
EvaluateInputs ==
    /\ op = "read"
    /\ pc = "lines"
    /\ error = "none"
    /\ \E id \in 1..MaxModelId, present \in SUBSET EvalResidues, place \in Placements :
           pdb_lines = PdbFile(id, present, place)
    /\ native_contacts \in ContactTables
    /\ max_frames = None
    /\ return_df = TRUE
    /\ line_num = 0
    /\ frames_data = << >>
    /\ current_model = None
    /\ current_residue_coords = << >>
    /\ model_found = FALSE
    /\ model_saved = FALSE
    /\ frame_pos = 0
    /\ results = << >>
    /\ parsed_csv = NoFile
    /\ ret = [kind |-> "unset", rows |-> << >>]
    /\ ClassifyIdle
    /\ SummarizeIdle
    /\ ClusterIdle
    /\ AdjacencyIdle

EvaluateInit == EvaluateInputs /\ contacts_csv = NoFile

SpecEvaluate == EvaluateInit /\ [][ReadNext]_vars

(***************************************************************************)
(* summarize_trajectory called without a DataFrame (df=None) on the        *)
(* Trajectory whose read_trajectory has returned: it loads the per-frame   *)
(* table from {base}_contacts.csv.  That file is absent, or holds a table  *)
(* left there before the run (its fractions are numerators over FillDen).  *)
(***************************************************************************)
\* ast.literal_eval of the text of a dict
LiteralEval(x) ==
    [k \in {x.items[n].key : n \in 1..Len(x.items)} |->
        x.items[Max({n \in 1..Len(x.items) : x.items[n].key = k})].value]

\* lines 576-581: pd.read_csv, then clusters_filling back to dicts
ReadCsv(file) ==
    [n \in 1..Len(file) |->
        [frame |-> file[n].frame, clusters_filling |-> LiteralEval(file[n].clusters_filling)]]

\* the tables {base}_contacts.csv may hold before the run
ContactsCsvFiles ==
    {[i \in 1..n |->
         [frame |-> FrameId(i),
          clusters_filling |->
              [text |-> "dict", items |-> <<[key |-> 0, value |-> 0], [key |-> 1, value |-> v]>>]]]
        : n \in 1..MaxWindowSize, v \in {0, FillDen}}

RoundTripInit ==
    /\ EvaluateInputs
    /\ contacts_csv \in {NoFile} \cup {Some(f) : f \in ContactsCsvFiles}

\* lines 563-581: summarize_trajectory(df=None) loads the table
SummarizeLoad ==
    /\ op = "read"
    /\ pc = "done"
    /\ op' = "summarize"
    /\ window_size' \in 1..MaxWindowSize
    /\ cutoff' = None
    /\ save_csv' = TRUE
    /\ IF contacts_csv = NoFile
       THEN /\ error' = "FileNotFoundError: Trajectory data not found"
            /\ pc' = "error"
            /\ UNCHANGED df_in
       ELSE /\ df_in' = ReadCsv(contacts_csv[1])
            /\ pc' = "start"
            /\ UNCHANGED error
    /\ UNCHANGED <<contacts_csv, df_sorted, window_idx, summary_data, window_frames,
                   summary_df, summary_file, classifyVars, readVars, clusterVars,
                   adjacencyVars>>

RoundTripNext == ReadNext \/ SummarizeLoad \/ SummarizeNext

SpecRoundTrip == RoundTripInit /\ [][RoundTripNext]_vars

(***************************************************************************)
(* ContactMap.cluster (contacts.py)                                        *)
(*                                                                         *)
(* A contact is the pair <<i, j>>.  KMeans(n_clusters=2, random_state=42)  *)
(* is a library call: fit_predict is a deterministic function of the       *)
(* feature array (the members of the cluster in list order) that gives     *)
(* each row the label 0 or 1 and uses both labels.  Which function it is   *)
(* is not fixed here: kmeans records the labels returned for each array,   *)
(* and a second call on the same array returns the same labels.            *)
(* "for neighbor in adjacency_graph[current]" iterates a set: the order in *)
(* which the neighbours are pushed is any order.                           *)
(***************************************************************************)
MaxContacts == 5
MaxClusterNumber == 3
MaxCutoffSize == 3

\* the cells of the contact map the rows are taken from: a block of four with
\* a diagonal neighbour, and a separate group of three
ContactGrid ==
    {<<1, 11>>, <<1, 12>>, <<2, 11>>, <<2, 12>>, <<3, 13>>, <<7, 20>>, <<7, 21>>, <<8, 21>>}

\* the contacts of a set as rows sorted by (i, j)
RowsOf(S) ==
    LET keys == Sorted({c[1] * 100 + c[2] : c \in S})
    IN  [n \in 1..Len(keys) |-> <<keys[n] \div 100, keys[n] % 100>>]

Abs(x) == IF x < 0 THEN -x ELSE x

\* mutant: only the axis-aligned neighbours are adjacent
AreAdjacentContactsAxisOnly(contact1, contact2) ==
    Abs(contact1[1] - contact2[1]) + Abs(contact1[2] - contact2[2]) = 1

\* lines 127-138
AreAdjacentContacts(contact1, contact2) ==
    LET i1 == contact1[1]
        j1 == contact1[2]
        i2 == contact2[1]
        j2 == contact2[2]
        manhattan_dist == Abs(i1 - i2) + Abs(j1 - j2)
    IN  \/ manhattan_dist = 1
        \/ Abs(i1 - i2) = 1 /\ Abs(j1 - j2) = 1

\* the cells the arguments of _are_adjacent_contacts are drawn from
MaxSpan == 3

AdjacencyCells == {<<i, j>> : i \in 1..MaxSpan, j \in 11..(10 + MaxSpan)}

AdjacencyInit ==
    /\ op = "adjacent"
    /\ pc = "call"
    /\ error = "none"
    /\ contact_pair \in AdjacencyCells \X AdjacencyCells
    /\ adjacent = None
    /\ native_contacts = NativeContacts
    /\ contacts_csv = NoFile
    /\ ClassifyIdle
    /\ SummarizeIdle
    /\ ReadIdle
    /\ ClusterIdle

\* _are_adjacent_contacts called on the pair, on the pair the other way round,
\* and on the first contact with itself
AreAdjacentCalls ==
    /\ op = "adjacent"
    /\ pc = "call"
    /\ adjacent' = Some([forward |-> AreAdjacentContacts(contact_pair[1], contact_pair[2]),
                         backward |-> AreAdjacentContacts(contact_pair[2], contact_pair[1]),
                         self |-> AreAdjacentContacts(contact_pair[1], contact_pair[1])])
    /\ pc' = "done"
    /\ UNCHANGED <<op, error, contact_pair, classifyVars, summarizeVars, readVars,
                   clusterVars>>

AdjacencyNext == AreAdjacentCalls

SpecAdjacency == AdjacencyInit /\ [][AdjacencyNext]_vars

\* mutant: an edge is recorded at its later endpoint only (line 160 missing)
AdjacencyGraphEarlierOnly(contact) ==
    {c \in Range(contacts) :
        /\ AreAdjacentContacts(contact, c)
        /\ \E n, m \in 1..Len(contacts) : n < m /\ contacts[n] = c /\ contacts[m] = contact}

\* lines 151-161: adjacency_graph[contact]
AdjacencyGraph(contact) ==
    {c \in Range(contacts) : c # contact /\ AreAdjacentContacts(contact, c)}

\* the orders in which a set can be iterated
Orders(S) == {o \in [1..Cardinality(S) -> S] : Range(o) = S}

\* mutant: the raw clusters are not filtered by size
FilteredClustersAll(clusters, size) == clusters

\* line 82: the raw clusters of at least cutoff_size members
FilteredClusters(clusters, size) == SelectSeq(clusters, LAMBDA c : Len(c) >= size)

\* mutant: clusters of equal length come out in the reverse of their order
RECURSIVE SortByLenLatestFirst(_, _)
SortByLenLatestFirst(clusters, len) ==
    IF len < 0 THEN << >>
    ELSE Reversed(SelectSeq(clusters, LAMBDA c : Len(c) = len))
             \o SortByLenLatestFirst(clusters, len - 1)

\* line 253: clusters.sort(key=len, reverse=True), a stable sort
RECURSIVE SortByLen(_, _)
SortByLen(clusters, len) ==
    IF len < 0 THEN << >>
    ELSE SelectSeq(clusters, LAMBDA c : Len(c) = len) \o SortByLen(clusters, len - 1)

\* lines 261-262: the first index of a largest cluster
LargestClusterIdx(clusters) ==
    LET longest == Max({Len(clusters[n]) : n \in 1..Len(clusters)})
    IN  Min({n \in 1..Len(clusters) : Len(clusters[n]) = longest})

\* the label vectors fit_predict may return for n rows
LabelVectors(n) == {l \in [1..n -> {0, 1}] : Range(l) = {0, 1}}

\* mutant: a split is accepted whatever the size of its sides
SplitByLabelsAnySize(cluster, labels) ==
    LET cluster1 == SelectSeq([n \in 1..Len(cluster) |-> <<cluster[n], labels[n]>>],
                              LAMBDA e : e[2] = 0)
        cluster2 == SelectSeq([n \in 1..Len(cluster) |-> <<cluster[n], labels[n]>>],
                              LAMBDA e : e[2] = 1)
    IN  << [n \in 1..Len(cluster1) |-> cluster1[n][1]],
           [n \in 1..Len(cluster2) |-> cluster2[n][1]] >>

\* lines 229-236 of _split_cluster, given the labels of the rows
SplitByLabels(cluster, labels) ==
    LET cluster1 == SelectSeq([n \in 1..Len(cluster) |-> <<cluster[n], labels[n]>>],
                              LAMBDA e : e[2] = 0)
        cluster2 == SelectSeq([n \in 1..Len(cluster) |-> <<cluster[n], labels[n]>>],
                              LAMBDA e : e[2] = 1)
    IN  IF Len(cluster1) < 2 \/ Len(cluster2) < 2
        THEN <<cluster>>
        ELSE << [n \in 1..Len(cluster1) |-> cluster1[n][1]],
                [n \in 1..Len(cluster2) |-> cluster2[n][1]] >>

\* result_clusters.pop(idx)
PopAt(clusters, at) == SubSeq(clusters, 1, at - 1) \o SubSeq(clusters, at + 1, Len(clusters))

\* contact_to_cluster with enumerate(final_clusters) counting from 0
ContactToClusterFromZero(final_clusters) ==
    [c \in Range(contacts) |->
        LET holding == {n \in 1..Len(final_clusters) : c \in Range(final_clusters[n])}
        IN  IF holding = {} THEN 0 ELSE Max(holding) - 1]

\* lines 94-101: contact_to_cluster
ContactToCluster(final_clusters) ==
    [c \in Range(contacts) |->
        LET holding == {n \in 1..Len(final_clusters) : c \in Range(final_clusters[n])}
        IN  IF holding = {} THEN 0 ELSE Max(holding)]

ClusterInit ==
    /\ op = "cluster"
    /\ pc = "seed"
    /\ error = "none"
    /\ \E S \in SUBSET ContactGrid :
           /\ Cardinality(S) <= MaxContacts
           /\ contacts \in {RowsOf(S), Reversed(RowsOf(S))}
    /\ cluster_number \in 1..MaxClusterNumber
    /\ cutoff_size \in 1..MaxCutoffSize
    /\ kmeans = << >>
    /\ visited = {}
    /\ raw_clusters = << >>
    /\ stack = << >>
    /\ cluster_cur = << >>
    /\ contact_idx = 0
    /\ result_clusters = << >>
    /\ largest_cluster_idx = 0
    /\ split_clusters = << >>
    /\ cluster_column = None
    /\ runs = 0
    /\ previous_column = None
    /\ native_contacts = NativeContacts
    /\ contacts_csv = NoFile
    /\ ClassifyIdle
    /\ SummarizeIdle
    /\ ReadIdle
    /\ AdjacencyIdle

\* lines 167-170: "for contact in contacts", a contact already visited is passed
ClusterSeed ==
    /\ op = "cluster"
    /\ pc = "seed"
    /\ contact_idx < Len(contacts)
    /\ LET contact == contacts[contact_idx + 1]
       IN  IF contact \notin visited
           THEN /\ cluster_cur' = << >>
                /\ stack' = <<contact>>
                /\ pc' = "dfs"
                /\ UNCHANGED contact_idx
           ELSE /\ contact_idx' = contact_idx + 1
                /\ UNCHANGED <<cluster_cur, stack, pc>>
    /\ UNCHANGED <<largest_cluster_idx, split_clusters,
                   op, error, contacts, cluster_number, cutoff_size, kmeans, visited,
                   raw_clusters, result_clusters, cluster_column, runs, previous_column,
                   classifyVars, summarizeVars, readVars,
                   adjacencyVars>>

\* lines 172-181: one iteration of "while stack"
ClusterDfsStep ==
    /\ op = "cluster"
    /\ pc = "dfs"
    /\ stack # << >>
    /\ LET current == stack[Len(stack)]
           popped == SubSeq(stack, 1, Len(stack) - 1)
       IN  IF current \notin visited
           THEN /\ visited' = visited \cup {current}
                /\ cluster_cur' = Append(cluster_cur, current)
                /\ \E order \in Orders(AdjacencyGraph(current) \ (visited \cup {current})) :
                       stack' = popped \o order
           ELSE /\ stack' = popped
                /\ UNCHANGED <<visited, cluster_cur>>
    /\ UNCHANGED <<largest_cluster_idx, split_clusters,
                   op, pc, error, contacts, cluster_number, cutoff_size, kmeans,
                   raw_clusters, contact_idx, result_clusters, cluster_column, runs,
                   previous_column, classifyVars, summarizeVars, readVars,
                   adjacencyVars>>

\* line 183: the stack is empty, the component is complete
ClusterDfsEnd ==
    /\ op = "cluster"
    /\ pc = "dfs"
    /\ stack = << >>
    /\ raw_clusters' = Append(raw_clusters, cluster_cur)
    /\ contact_idx' = contact_idx + 1
    /\ pc' = "seed"
    /\ UNCHANGED <<largest_cluster_idx, split_clusters,
                   op, error, contacts, cluster_number, cutoff_size, kmeans, visited, stack,
                   cluster_cur, result_clusters, cluster_column, runs, previous_column,
                   classifyVars, summarizeVars, readVars,
                   adjacencyVars>>

\* lines 82-90 and 251-257: filter by cutoff_size; no cluster left: all 0;
\* enough clusters: the cluster_number largest; else split
ClusterFilter ==
    /\ op = "cluster"
    /\ pc = "seed"
    /\ contact_idx = Len(contacts)
    /\ LET filtered_clusters == FilteredClusters(raw_clusters, cutoff_size)
       IN  IF filtered_clusters = << >>
           THEN /\ cluster_column' = Some([c \in Range(contacts) |-> 0])
                /\ pc' = "done"
                /\ UNCHANGED result_clusters
           ELSE IF Len(filtered_clusters) >= cluster_number
                THEN /\ result_clusters' =
                            SubSeq(SortByLen(filtered_clusters, Len(contacts)),
                                   1, cluster_number)
                     /\ pc' = "assign"
                     /\ UNCHANGED cluster_column
                ELSE /\ result_clusters' = filtered_clusters
                     /\ pc' = "split"
                     /\ UNCHANGED cluster_column
    /\ UNCHANGED <<largest_cluster_idx, split_clusters,
                   op, error, contacts, cluster_number, cutoff_size, kmeans, visited,
                   raw_clusters, stack, cluster_cur, contact_idx, runs, previous_column,
                   classifyVars, summarizeVars, readVars,
                   adjacencyVars>>

\* lines 259-269: one test of "while len(result_clusters) < target_number"
\* and, if it passes, the choice of the largest cluster and its split
ClusterSplitStep ==
    /\ op = "cluster"
    /\ pc = "split"
    /\ IF Len(result_clusters) >= cluster_number
       THEN /\ pc' = "assign"
            /\ UNCHANGED <<largest_cluster_idx, split_clusters, kmeans>>
       ELSE LET largest == LargestClusterIdx(result_clusters)
                largest_cluster == result_clusters[largest]
            IN  /\ largest_cluster_idx' = largest
                /\ IF Len(largest_cluster) < 4
                   THEN /\ pc' = "assign"                       \* break
                        /\ UNCHANGED <<split_clusters, kmeans>>
                   ELSE /\ \E labels \in LabelVectors(Len(largest_cluster)) :
                               /\ largest_cluster \in DOMAIN kmeans
                                      => labels = kmeans[largest_cluster]
                               /\ kmeans' = (largest_cluster :> labels) @@ kmeans
                               /\ split_clusters' = SplitByLabels(largest_cluster, labels)
                        /\ pc' = "replace"
    /\ UNCHANGED <<op, error, contacts, cluster_number, cutoff_size, visited, raw_clusters,
                   stack, cluster_cur, contact_idx, result_clusters, cluster_column, runs,
                   previous_column, classifyVars, summarizeVars, readVars,
                   adjacencyVars>>

\* lines 271-273: the largest cluster is replaced by what the split returned
ClusterSplitReplace ==
    /\ op = "cluster"
    /\ pc = "replace"
    /\ result_clusters' = PopAt(result_clusters, largest_cluster_idx) \o split_clusters
    /\ pc' = "split"
    /\ UNCHANGED <<op, error, contacts, cluster_number, cutoff_size, kmeans, visited,
                   raw_clusters, stack, cluster_cur, contact_idx, largest_cluster_idx,
                   split_clusters, cluster_column, runs, previous_column,
                   classifyVars, summarizeVars, readVars,
                   adjacencyVars>>

\* lines 92-110: number the final clusters from 1, every other contact gets 0
ClusterAssign ==
    /\ op = "cluster"
    /\ pc = "assign"
    /\ cluster_column' = Some(ContactToCluster(result_clusters))
    /\ pc' = "done"
    /\ UNCHANGED <<largest_cluster_idx, split_clusters,
                   op, error, contacts, cluster_number, cutoff_size, kmeans, visited,
                   raw_clusters, stack, cluster_cur, contact_idx, result_clusters, runs,
                   previous_column, classifyVars, summarizeVars, readVars,
                   adjacencyVars>>

\* cluster() is called again on the same ContactMap with the same arguments
ClusterAgain ==
    /\ op = "cluster"
    /\ pc = "done"
    /\ runs = 0
    /\ runs' = 1
    /\ previous_column' = cluster_column
    /\ cluster_column' = None
    /\ visited' = {}
    /\ raw_clusters' = << >>
    /\ stack' = << >>
    /\ cluster_cur' = << >>
    /\ contact_idx' = 0
    /\ result_clusters' = << >>
    /\ largest_cluster_idx' = 0
    /\ split_clusters' = << >>
    /\ pc' = "seed"
    /\ UNCHANGED <<op, error, contacts, cluster_number, cutoff_size, kmeans,
                   classifyVars, summarizeVars, readVars,
                   adjacencyVars>>

ClusterNext ==
    \/ ClusterSeed
    \/ ClusterDfsStep
    \/ ClusterDfsEnd
    \/ ClusterFilter
    \/ ClusterSplitStep
    \/ ClusterSplitReplace
    \/ ClusterAssign

SpecCluster == ClusterInit /\ [][ClusterNext]_vars

\* the interpreter always takes the next step of cluster()
SpecClusterFair == SpecCluster /\ WF_vars(ClusterNext)

ClusterTwiceNext == ClusterNext \/ ClusterAgain

SpecClusterTwice == ClusterInit /\ [][ClusterTwiceNext]_vars

(***************************************************************************)
(* Properties of read_trajectory.                                          *)
(***************************************************************************)
\* the file holds no frame: no record of it ever starts or fills one
SourceHasNoFrames == \A n \in 1..Len(pdb_lines) : pdb_lines[n].kind = "OTHER"

\* C10: when the trajectory source contains zero frames, read_trajectory
\* (asked to return its result) yields an empty sequence of Frame Results and
\* raises no error.
C10_EmptySourceYieldsEmptySequence ==
    (op = "read" /\ pc = "done" /\ return_df /\ SourceHasNoFrames) =>
        /\ error = "none"
        /\ ret = [kind |-> "DataFrame", rows |-> << >>]

(***************************************************************************)
(* Properties of the frame evaluation (trajectory.py lines 207-249).       *)
(***************************************************************************)
\* the coordinates the file gives residue res in frame f (read off the file:
\* the last CA record of res)
SourceCoords(res) ==
    LET recs == {n \in 1..Len(pdb_lines) : pdb_lines[n].kind = "CA" /\ pdb_lines[n].res = res}
    IN  pdb_lines[Max(recs)].xyz

SourceResidues == {pdb_lines[n].res : n \in {k \in 1..Len(pdb_lines) : pdb_lines[k].kind = "CA"}}

\* contact c is within reach in the file: both residues have coordinates and
\* distance^2 * (r.den * 5)^2 < (r.num * 6)^2, i.e. distance < r * 1.2
WithinReach(c) ==
    /\ {c.i, c.j} \subseteq SourceResidues
    /\ LET a == SourceCoords(c.i)
           b == SourceCoords(c.j)
           dx == a[1] - b[1]
           dy == a[2] - b[2]
           dz == a[3] - b[3]
       IN  25 * c.r[2] * c.r[2] * (dx * dx + dy * dy + dz * dz) < 36 * c.r[1] * c.r[1]

\* contact c is at distance exactly r * 1.2
AtThreshold(c) ==
    /\ {c.i, c.j} \subseteq SourceResidues
    /\ LET a == SourceCoords(c.i)
           b == SourceCoords(c.j)
           dx == a[1] - b[1]
           dy == a[2] - b[2]
           dz == a[3] - b[3]
       IN  25 * c.r[2] * c.r[2] * (dx * dx + dy * dy + dz * dz) = 36 * c.r[1] * c.r[1]

ContactRows == {native_contacts[n] : n \in 1..Len(native_contacts)}

FramesEvaluated == op = "read" /\ pc = "done" /\ Len(results) = 1

\* C11: a native contact (i,j) with reference distance r is in the frame's
\* formed list iff both i and j have coordinates in the frame and their
\* distance is strictly less than r * cutoff_distance; a pair at exactly that
\* distance, or with a missing residue, is not formed and no error is raised.
C11_FormedIffStrictlyWithinCutoff ==
    FramesEvaluated =>
        /\ error = "none"
        /\ \A c \in ContactRows :
               (<<c.i, c.j>> \in Range(results[1].contact_list)) <=> WithinReach(c)
        /\ \A c \in ContactRows :
               (AtThreshold(c) \/ ~({c.i, c.j} \subseteq SourceResidues))
                   => <<c.i, c.j>> \notin Range(results[1].contact_list)

C11_Witness ==
    /\ FramesEvaluated
    /\ error = "none"
    /\ \E c \in ContactRows : AtThreshold(c) /\ <<c.i, c.j>> \notin Range(results[1].contact_list)
    /\ \E c \in ContactRows : c.j \notin SourceResidues /\ c.i \in SourceResidues
    /\ \E c \in ContactRows : <<c.i, c.j>> \in Range(results[1].contact_list)

\* the cluster ids present in the contact table, its members, and those of
\* them within reach in the file
TableClusters == {c.cluster : c \in ContactRows}

Members(k) == {c \in ContactRows : c.cluster = k}

FormedMembers(k) == {c \in Members(k) : WithinReach(c)}

\* C12: in every Frame Result the filling fraction of each cluster id of the
\* contact table is (formed contacts of the cluster) / (contacts of the
\* cluster), lies in [0,1] and never is a division error; the per-cluster
\* formed counts sum to formed_count; six contacts in two clusters of three,
\* all of cluster 1 and none of cluster 2 formed, give q = 0.5 and fillings
\* 1.0 and 0.0.
C12_FillingIsFormedOverSize ==
    FramesEvaluated =>
        LET row == results[1]
            filling == row.clusters_filling
            ids == Sorted(TableClusters)
        IN  /\ error = "none"
            /\ DOMAIN filling = TableClusters
            /\ \A k \in TableClusters :
                   /\ filling[k][2] > 0
                   /\ filling[k][1] * Cardinality(Members(k))
                          = Cardinality(FormedMembers(k)) * filling[k][2]
                   /\ 0 <= filling[k][1]
                   /\ filling[k][1] <= filling[k][2]
            /\ SumSeq([n \in 1..Len(ids) |-> Cardinality(FormedMembers(ids[n]))])
                   = row.contacts
            /\ (/\ native_contacts = ScenarioAContacts
                /\ FormedMembers(1) = Members(1)
                /\ FormedMembers(2) = {})
                   => /\ 2 * row.q[1] = row.q[2]
                      /\ filling[1][1] = filling[1][2]
                      /\ filling[2][1] = 0

C12_Witness ==
    /\ FramesEvaluated
    /\ native_contacts = ScenarioAContacts
    /\ FormedMembers(1) = Members(1)
    /\ FormedMembers(2) = {}
    /\ SourceResidues = EvalResidues
    /\ results[1].q = <<3, 6>>
    /\ results[1].clusters_filling = (1 :> <<3, 3>>) @@ (2 :> <<0, 3>>)

\* C13: in every Frame Result formed_count is the number of formed (i,j)
\* pairs, q is formed_count / total (0.0 when the Contact Set is empty) and
\* 0 <= q <= 1.
C13_QIsFormedOverTotal ==
    FramesEvaluated =>
        LET row == results[1]
            total == Cardinality(ContactRows)
        IN  /\ row.contacts = Cardinality({c \in ContactRows : WithinReach(c)})
            /\ row.contacts = Cardinality(Range(row.contact_list))
            /\ row.q[2] > 0
            /\ row.q[1] * total = row.contacts * row.q[2]
            /\ total = 0 => row.q[1] = 0
            /\ 0 <= row.q[1]
            /\ row.q[1] <= row.q[2]

C13_Witness ==
    /\ FramesEvaluated
    /\ native_contacts = << >>
    /\ SourceResidues = EvalResidues
    /\ results[1].contacts = 0
    /\ results[1].q = <<0, 1>>

(***************************************************************************)
(* Properties of the frame reader and of the order of the Frame Results.   *)
(***************************************************************************)
\* the ids of the MODEL records of the file, in file order
ModelIds == LET recs == SelectSeq(pdb_lines, LAMBDA l : l.kind = "MODEL")
            IN  [n \in 1..Len(recs) |-> recs[n].id]

\* the file yields a later frame with a smaller id than an earlier one
NonMonotonicSource == \E a, b \in 1..Len(ModelIds) : a < b /\ ModelIds[a] > ModelIds[b]

ReturnedFrames == [n \in 1..Len(ret.rows) |-> ret.rows[n].frame]

\* C14: whatever the order of the frames in the source, read_trajectory
\* returns the Frame Results in strictly ascending frame id, exactly one for
\* each distinct frame id collected, each frame evaluated once.
C14_ResultsAscendingOnePerFrame ==
    (op = "read" /\ pc = "done" /\ ret.kind = "DataFrame") =>
        /\ \A n \in 1..(Len(ret.rows) - 1) : ReturnedFrames[n] < ReturnedFrames[n + 1]
        /\ Range(ReturnedFrames) = DOMAIN frames_data
        /\ Len(ret.rows) = Cardinality(DOMAIN frames_data)
        /\ Len(results) = Cardinality(DOMAIN frames_data)
        /\ \A f \in DOMAIN frames_data :
               Cardinality({n \in 1..Len(results) : results[n].frame = f}) = 1

C14_Witness ==
    /\ op = "read"
    /\ pc = "done"
    /\ ret.kind = "DataFrame"
    /\ NonMonotonicSource
    /\ ReturnedFrames = <<1, 2>>
    /\ ModelIds = <<2, 1>>

\* the MODEL record at line n is followed by a record that stores its frame:
\* a MODEL or ENDMDL record, or a CA record that gives it coordinates
HoldsFrame(n) == \E k \in (n + 1)..Len(pdb_lines) : pdb_lines[k].kind # "OTHER"

\* the distinct frame ids of the source, in source order (a file without
\* MODEL records is the single frame 1)
SourceFrameIds ==
    LET models == SelectSeq([n \in 1..Len(pdb_lines) |-> [line |-> pdb_lines[n], at |-> n]],
                            LAMBDA e : e.line.kind = "MODEL" /\ HoldsFrame(e.at))
    IN  IF \E n \in 1..Len(pdb_lines) : pdb_lines[n].kind = "MODEL"
        THEN Distinct([n \in 1..Len(models) |-> models[n].line.id])
        ELSE IF \E n \in 1..Len(pdb_lines) : pdb_lines[n].kind = "CA"
             THEN <<1>>
             ELSE << >>

ReaderReturned == op = "read" /\ pc \in {"loaded", "frames", "done"}

\* C15: with max_frames = m the reader stops consuming the source as soon as
\* m distinct frame ids are stored: the collected set never holds more than m
\* ids, and it holds exactly the first min(m, D) distinct ids of the source in
\* source order, also when models are not terminated by ENDMDL.
C15_MaxFramesKeepsFirstDistinctIds ==
    /\ max_frames # None => Cardinality(DOMAIN frames_data) <= max_frames[1]
    /\ (op = "read" /\ pc = "lines" /\ DOMAIN frames_data # {})
           => ~LimitReached(frames_data, max_frames)
    /\ (ReaderReturned /\ max_frames = None) => DOMAIN frames_data = Range(SourceFrameIds)
    /\ (ReaderReturned /\ max_frames # None) =>
           DOMAIN frames_data
               = Range(SubSeq(SourceFrameIds, 1, Min({max_frames[1], Len(SourceFrameIds)})))

C15_Witness ==
    /\ ReaderReturned
    /\ max_frames = Some(1)
    /\ Len(SourceFrameIds) = 2
    /\ \A n \in 1..Len(pdb_lines) : pdb_lines[n].kind # "ENDMDL"
    /\ DOMAIN frames_data = {SourceFrameIds[1]}
    /\ line_num < Len(pdb_lines)

(***************************************************************************)
(* Properties of the persisted per-frame table.                            *)
(***************************************************************************)
\* C20: after read_trajectory has written the per-frame table,
\* summarize_trajectory called with df=None re-reads that table: it finds the
\* file and obtains, frame by frame, the filling values of the Frame Results.
C20_SummarizeRereadsWrittenTable ==
    (op = "summarize" /\ parsed_csv # NoFile) =>
        /\ error = "none"
        /\ Len(df_in) = Len(ret.rows)
        /\ \A n \in 1..Len(df_in) :
               /\ df_in[n].frame = ret.rows[n].frame
               /\ DOMAIN df_in[n].clusters_filling = DOMAIN ret.rows[n].clusters_filling
               /\ \A c \in DOMAIN df_in[n].clusters_filling :
                      df_in[n].clusters_filling[c] * ret.rows[n].clusters_filling[c][2]
                          = ret.rows[n].clusters_filling[c][1] * FillDen

(***************************************************************************)
(* Properties of ContactMap.cluster.                                       *)
(***************************************************************************)
ClusterDone == op = "cluster" /\ pc = "done"

\* the contacts that were given the id n
WithId(n) == {c \in Range(contacts) : cluster_column[1][c] = n}

UsedIds == {cluster_column[1][c] : c \in Range(contacts)} \ {0}

\* C16: after cluster() every contact has exactly one id in 0..K; the
\* non-zero ids in use are exactly 1..N with N <= K; the contacts sharing a
\* non-zero id are exactly the members of one final candidate, and every
\* contact outside the final candidates has id 0.
C16_IdsNumberFinalCandidates ==
    ClusterDone =>
        /\ DOMAIN cluster_column[1] = Range(contacts)
        /\ \A c \in Range(contacts) : cluster_column[1][c] \in 0..cluster_number
        /\ UsedIds = 1..Len(result_clusters)
        /\ Len(result_clusters) <= cluster_number
        /\ \A n \in 1..Len(result_clusters) : WithId(n) = Range(result_clusters[n])
        /\ WithId(0) = Range(contacts)
                           \ UNION {Range(result_clusters[n]) : n \in 1..Len(result_clusters)}

C16_Witness ==
    /\ ClusterDone
    /\ kmeans # << >>
    /\ Len(raw_clusters) = 2
    /\ UsedIds = {1, 2}
    /\ WithId(0) # {}
    /\ Cardinality(WithId(1)) = 2
    /\ Cardinality(WithId(2)) = 2

\* C17: after cluster(K, S) every cluster with a non-zero id holds at least S
\* contacts, also a cluster that results from splitting a larger candidate.
C17_EveryClusterHasCutoffSize ==
    ClusterDone => \A n \in UsedIds : Cardinality(WithId(n)) >= cutoff_size

\* C18: cluster() terminates for every Contact Set, K and S and every
\* deterministic two-way partition the splitter returns.
C18_ClusterTerminates == <>ClusterDone

EachFormsOnceAndStays ==
    /\ AllKeys # {}
    /\ EverFormed = NonZeroColumns
    /\ DistinctFirstWindows
    /\ StaysFormedUpTo(Max(AllKeys))

\* C21: as the docstring of classify says ("last formed first"), for a summary
\* where each non-zero cluster becomes 1 in a distinct window and stays 1 the
\* first element of the returned list is the cluster whose first formed
\* window is the latest.
C21_LastFormedFirst ==
    (op = "classify" /\ pc = "done" /\ EachFormsOnceAndStays) =>
        FirstFormed(Order[1]) = Max({FirstFormed(c) : c \in NonZeroColumns})

\* the windows in which every non-zero cluster equals 1
AllFormedKeys == {k \in AllKeys : FormedIn(k) = NonZeroColumns}

\* the largest number of non-zero clusters equal to 1 in one window
MostFormed == Max({Cardinality(FormedIn(k)) : k \in AllKeys})

\* the anchor window of the claim
ExpectedAnchor ==
    IF AllFormedKeys # {}
    THEN Min(AllFormedKeys)
    ELSE Min({k \in AllKeys : Cardinality(FormedIn(k)) = MostFormed})

\* the summary restricted to the windows with keys in keep
OnlyWindows(df, keep) ==
    [cols |-> df.cols, rows |-> [k \in keep |-> df.rows[k]]]

\* C22: the anchor window of a successful classify is the earliest window in
\* which every non-zero cluster equals 1, or, if there is none, the earliest
\* window among those with the maximum number of non-zero clusters equal to 1;
\* the windows after the anchor do not influence the Formation Order: the
\* summary cut after the anchor window has the same anchor and the same order,
\* so the order is a function of the windows up to the anchor alone.
C22_AnchorIsEarliestAndLaterWindowsIgnored ==
    (op = "classify" /\ pc = "done") =>
        /\ AnchorKey = ExpectedAnchor
        /\ LET upto == {k \in AllKeys : k <= AnchorKey}
               cut == ClassifyRun(OnlyWindows(summary_in, upto))
           IN  /\ cut.error = "none"
               /\ cut.start_frame = Some(AnchorKey)
               /\ cut.formation_order = formation_order

\* a successful run anchored at an all-formed window that is neither the first
\* nor the last window, with a later all-formed window and a later window where
\* a cluster is lost
C22_Witness ==
    /\ op = "classify"
    /\ pc = "done"
    /\ Cardinality(NonZeroColumns) = 2
    /\ Cardinality(AllFormedKeys) >= 1
    /\ AnchorKey = Min(AllFormedKeys)
    /\ \E k \in AllKeys : k < AnchorKey
    /\ \E k \in AllKeys : k > AnchorKey /\ FormedIn(k) # NonZeroColumns
    /\ Len(Order) = 2

\* C29: whenever classify succeeds, every non-zero cluster that equals 1 at
\* the anchor window appears at least once in the returned Formation Order, and
\* every cluster in the Formation Order equals 1 in at least one window at or
\* before the anchor.
C29_OrderCoversAnchorClusters ==
    (op = "classify" /\ pc = "done") =>
        /\ \A c \in FormedIn(AnchorKey) : \E n \in 1..Len(Order) : Order[n] = c
        /\ \A n \in 1..Len(Order) :
               \E k \in AllKeys : k <= AnchorKey /\ Order[n] \in FormedIn(k)

\* a successful run in which one cluster breaks during the scan and another is
\* still formed at the earliest window, the anchor not being the first window
C29_Witness ==
    /\ op = "classify"
    /\ pc = "done"
    /\ Cardinality(FormedIn(AnchorKey)) = 2
    /\ AnchorKey > Min(AllKeys)
    /\ Cardinality(FormedIn(Min(AllKeys))) = 1
    /\ Len(Order) = 2

(***************************************************************************)
(* Further properties of the frame reader.  A frame of the source starts   *)
(* at a MODEL record and ends at the next MODEL or ENDMDL record or at the *)
(* end of the file.                                                        *)
(***************************************************************************)
\* the line that ends the frame started at line p (Len + 1: the end of the file)
Terminator(p) ==
    Min({q \in (p + 1)..Len(pdb_lines) : pdb_lines[q].kind \in {"MODEL", "ENDMDL"}}
        \cup {Len(pdb_lines) + 1})

\* the coordinates given by the CA records of the lines a..b, a later record of
\* a residue replacing an earlier one
RecordsCoords(a, b) ==
    LET at == {q \in a..b : pdb_lines[q].kind = "CA"}
    IN  [r \in {pdb_lines[q].res : q \in at} |->
            pdb_lines[Max({q \in at : pdb_lines[q].res = r})].xyz]

\* the coordinates of the frame started at line p
FrameCoords(p) == RecordsCoords(p + 1, Terminator(p) - 1)

\* the reader has consumed the whole frame started by the MODEL record at line
\* p: its terminating record has been read, or the reader has returned at the
\* end of the file, which ended inside it after at least one CA record
YieldedAt(p) ==
    /\ p \in 1..line_num
    /\ pdb_lines[p].kind = "MODEL"
    /\ \/ Terminator(p) <= line_num
       \/ /\ Terminator(p) = Len(pdb_lines) + 1
          /\ line_num = Len(pdb_lines)
          /\ op = "read" /\ pc \in {"loaded", "frames", "done"}
          /\ DOMAIN FrameCoords(p) # {}

YieldedWithId(id) == {p \in 1..Len(pdb_lines) : YieldedAt(p) /\ pdb_lines[p].id = id}

\* C23: if the source yields two frames with the same frame id, both within
\* the consumed prefix, then once the reader has returned the frame stored for
\* that id is entirely the later one: its coordinate map is the map of the
\* later frame, not merged with the earlier, and the Frame Result for that id
\* is the one computed from the later coordinates.
C23_LaterDuplicateFrameReplaces ==
    ReaderReturned =>
        \A id \in 1..MaxModelId :
            Cardinality(YieldedWithId(id)) >= 2 =>
                LET later == FrameCoords(Max(YieldedWithId(id)))
                IN  /\ id \in DOMAIN frames_data
                    /\ frames_data[id] = later
                    /\ \A n \in 1..Len(results) :
                           results[n].frame = id => results[n] = FrameResult(id, later)
                    /\ pc = "done" => \E n \in 1..Len(results) : results[n].frame = id

\* a finished read of a file with two frames of the same id whose coordinate
\* maps have different residues and different Frame Results
C23_Witness ==
    /\ op = "read"
    /\ pc = "done"
    /\ \E id \in 1..MaxModelId :
           /\ Cardinality(YieldedWithId(id)) = 2
           /\ LET first == FrameCoords(Min(YieldedWithId(id)))
                  later == FrameCoords(Max(YieldedWithId(id)))
              IN  /\ DOMAIN first # {}
                  /\ DOMAIN later # {}
                  /\ DOMAIN first # DOMAIN later
                  /\ frames_data[id] = later
                  /\ \E n \in 1..Len(results) : results[n].frame = id

SourceHasModel == \E p \in 1..Len(pdb_lines) : pdb_lines[p].kind = "MODEL"

\* the residue r of the frame stored for id has its coordinates from a CA
\* record between a MODEL record of that id and the end of that model's frame
FromOwnFrame(id, r) ==
    \E p \in 1..Len(pdb_lines) :
        /\ pdb_lines[p].kind = "MODEL"
        /\ pdb_lines[p].id = id
        /\ \E q \in (p + 1)..(Terminator(p) - 1) :
               /\ pdb_lines[q].kind = "CA"
               /\ pdb_lines[q].res = r
               /\ pdb_lines[q].xyz = frames_data[id][r]

\* C30: the coordinate map stored for a frame contains only coordinates from
\* CA records that lie between that frame's MODEL record and its terminating
\* ENDMDL (or the next MODEL record, or the end of the file); records before
\* the first MODEL, or between an ENDMDL and the next MODEL or the end of the
\* file, never enter any stored frame.
C30_StoredFrameFromOwnRecords ==
    \A id \in DOMAIN frames_data : \A r \in DOMAIN frames_data[id] : FromOwnFrame(id, r)

\* C30, amended: in a source with at least one MODEL record, the map stored
\* for a frame id is at every moment exactly the map of the CA records between
\* the MODEL record of the latest consumed frame of that id and the end of
\* that frame, so records before the first MODEL or after an ENDMDL never
\* enter a stored frame and a frame stored at ENDMDL is not altered by later
\* records of the same model; a source without any MODEL record yields,
\* unless max_frames is 0 or it has no CA record, the single frame 1 holding
\* the coordinates of all its CA records, whatever ENDMDL records it contains.
C30_StoredFrameFromOwnRecordsOrWholeFile ==
    /\ SourceHasModel =>
           \A id \in DOMAIN frames_data :
               /\ YieldedWithId(id) # {}
               /\ frames_data[id] = FrameCoords(Max(YieldedWithId(id)))
    /\ (~SourceHasModel /\ ~ReaderReturned) => DOMAIN frames_data = {}
    /\ (~SourceHasModel /\ ReaderReturned) =>
           IF max_frames # Some(0) /\ DOMAIN RecordsCoords(1, Len(pdb_lines)) # {}
           THEN /\ DOMAIN frames_data = {1}
                /\ frames_data[1] = RecordsCoords(1, Len(pdb_lines))
           ELSE DOMAIN frames_data = {}

\* the reader has returned a frame stored at its ENDMDL record, from a file
\* with a CA record before the first MODEL record and another after the ENDMDL
C30_Witness ==
    /\ ReaderReturned
    /\ Len(pdb_lines) = 4
    /\ pdb_lines[1].kind = "CA"
    /\ pdb_lines[2].kind = "MODEL"
    /\ pdb_lines[3].kind = "ENDMDL"
    /\ pdb_lines[4].kind = "CA"
    /\ line_num = 4
    /\ DOMAIN frames_data = {pdb_lines[2].id}
    /\ frames_data[pdb_lines[2].id] = << >>

(***************************************************************************)
(* Properties of ContactMap.cluster: adjacency, raw clusters, selection    *)
(* and splitting of the candidates.                                        *)
(***************************************************************************)
RowDistance == Abs(contact_pair[1][1] - contact_pair[2][1])

ColumnDistance == Abs(contact_pair[1][2] - contact_pair[2][2])

\* C24: _are_adjacent_contacts((i1,j1),(i2,j2)) is true iff
\* |i1-i2| + |j1-j2| = 1 or (|i1-i2| = 1 and |j1-j2| = 1), i.e. iff
\* max(|i1-i2|, |j1-j2|) = 1; the relation is symmetric and no contact is
\* adjacent to itself.
C24_AdjacentIffChebyshevOne ==
    (op = "adjacent" /\ pc = "done") =>
        /\ adjacent[1].forward
               <=> (\/ RowDistance + ColumnDistance = 1
                    \/ RowDistance = 1 /\ ColumnDistance = 1)
        /\ adjacent[1].forward <=> Max({RowDistance, ColumnDistance}) = 1
        /\ adjacent[1].backward = adjacent[1].forward
        /\ ~adjacent[1].self

\* the function has been called on two diagonal neighbours
C24_Witness ==
    /\ op = "adjacent"
    /\ pc = "done"
    /\ RowDistance = 1
    /\ ColumnDistance = 1
    /\ adjacent[1].forward

\* _create_raw_clusters has returned
RawClustersReturned ==
    /\ op = "cluster"
    /\ \/ pc = "seed" /\ contact_idx = Len(contacts)
       \/ pc \in {"split", "replace", "assign", "done"}

\* two different input contacts that are neighbours on the contact map
Touching(a, b) ==
    /\ a # b
    /\ Max({Abs(a[1] - b[1]), Abs(a[2] - b[2])}) = 1

\* the contacts joined to a member of S by a path of neighbouring contacts
RECURSIVE Joined(_)
Joined(S) ==
    LET more == S \cup {b \in Range(contacts) : \E a \in S : Touching(a, b)}
    IN  IF more = S THEN S ELSE Joined(more)

\* the position in the input of the earliest member of a cluster
EarliestMember(cluster) ==
    Min({n \in 1..Len(contacts) : contacts[n] \in Range(cluster)})

\* C25: the raw clusters returned by _create_raw_clusters are exactly the
\* connected components of the adjacency graph: no contact is listed twice,
\* the clusters are pairwise disjoint, their union is the set of input
\* contacts, two contacts are in the same raw cluster iff a path of adjacent
\* contacts joins them, and the clusters are listed in the input order of
\* their earliest member.
C25_RawClustersAreComponents ==
    RawClustersReturned =>
        /\ \A n \in 1..Len(raw_clusters) :
               /\ raw_clusters[n] # << >>
               /\ Cardinality(Range(raw_clusters[n])) = Len(raw_clusters[n])
        /\ \A n, m \in 1..Len(raw_clusters) :
               n # m => Range(raw_clusters[n]) \cap Range(raw_clusters[m]) = {}
        /\ UNION {Range(raw_clusters[n]) : n \in 1..Len(raw_clusters)} = Range(contacts)
        \* the contacts in the raw cluster of a are the contacts joined to a
        /\ \A n \in 1..Len(raw_clusters) : \A a \in Range(raw_clusters[n]) :
               Range(raw_clusters[n]) = Joined({a})
        /\ \A n, m \in 1..Len(raw_clusters) :
               n < m => EarliestMember(raw_clusters[n]) < EarliestMember(raw_clusters[m])

\* raw clusters of an input with two components, one of them holding two
\* contacts that are joined by a path but are not neighbours
C25_Witness ==
    /\ RawClustersReturned
    /\ Len(raw_clusters) = 2
    /\ \E n \in 1..2 : \E a, b \in Range(raw_clusters[n]) : a # b /\ ~Touching(a, b)

\* the contacts whose connected component has fewer than cutoff_size members
InSmallComponent == {c \in Range(contacts) : Cardinality(Joined({c})) < cutoff_size}

\* C26: every contact whose connected component has fewer than cutoff_size
\* members is assigned cluster 0; if no component has at least cutoff_size
\* members (an empty contact set included), the count adjustment is skipped
\* (no candidate list is built, nothing is split), every contact is assigned
\* cluster 0 and no error is raised.
C26_SmallComponentsGetZero ==
    op = "cluster" =>
        /\ pc = "done" => \A c \in InSmallComponent : cluster_column[1][c] = 0
        \* a call that reaches the adjustment, builds a candidate list, splits
        \* or fails has a component of at least cutoff_size members
        /\ (\/ pc \notin {"seed", "dfs", "done"}
            \/ result_clusters # << >>
            \/ kmeans # << >>
            \/ error # "none") => InSmallComponent # Range(contacts)

\* a finished run in which one component is below the cutoff and another is
\* numbered
C26_Witness ==
    /\ op = "cluster"
    /\ pc = "done"
    /\ InSmallComponent # {}
    /\ \E c \in Range(contacts) : cluster_column[1][c] # 0
    /\ \E c \in InSmallComponent : Cardinality(Joined({c})) >= 2

\* the candidates: the positions in the list of raw clusters (their order of
\* discovery) of the clusters with at least cutoff_size members
Candidates == {n \in 1..Len(raw_clusters) : Len(raw_clusters[n]) >= cutoff_size}

\* the candidates found whole in the final list, and the others
Retained == {n \in Candidates : \E k \in 1..Len(result_clusters) :
                                    result_clusters[k] = raw_clusters[n]}

Discarded == Candidates \ Retained

AdjustmentDone == op = "cluster" /\ pc \in {"assign", "done"}

\* C27: when the number of candidates is at least cluster_number, exactly
\* cluster_number candidates are retained; every retained candidate has at
\* least as many members as every discarded one; among candidates of equal
\* size the one discovered earlier is preferred; retained candidates are never
\* split (nothing is split at all); and all contacts of discarded candidates
\* get cluster 0.
C27_LargestCandidatesRetained ==
    (AdjustmentDone /\ Cardinality(Candidates) >= cluster_number) =>
        /\ Len(result_clusters) = cluster_number
        /\ Cardinality(Retained) = cluster_number
        /\ \A n \in Retained : \A m \in Discarded :
               \/ Len(raw_clusters[n]) > Len(raw_clusters[m])
               \/ Len(raw_clusters[n]) = Len(raw_clusters[m]) /\ n < m
        /\ kmeans = << >>
        /\ pc = "done" =>
               /\ \A m \in Discarded : \A c \in Range(raw_clusters[m]) :
                      cluster_column[1][c] = 0
               /\ \A n \in Retained : \A c \in Range(raw_clusters[n]) :
                      cluster_column[1][c] # 0

\* a finished run with more candidates than cluster_number in which a
\* discarded candidate has the size of a retained one
C27_Witness ==
    /\ op = "cluster"
    /\ pc = "done"
    /\ Cardinality(Candidates) > cluster_number
    /\ \E n \in Retained : \E m \in Discarded :
           /\ Len(raw_clusters[n]) = Len(raw_clusters[m])
           /\ Len(raw_clusters[n]) >= 2

\* the contacts of the candidates
CandidateContacts == UNION {Range(raw_clusters[n]) : n \in Candidates}

\* the adjustment loop of a call with fewer candidates than cluster_number
InSplitLoop ==
    /\ op = "cluster"
    /\ pc \in {"split", "replace", "assign"}
    /\ Cardinality(Candidates) < cluster_number

\* throughout the loop the candidates are pairwise disjoint, hold exactly the
\* contacts of the original candidates, and are at most cluster_number
SplitLoopInvariant ==
    InSplitLoop =>
        /\ \A n \in 1..Len(result_clusters) :
               Cardinality(Range(result_clusters[n])) = Len(result_clusters[n])
        /\ \A n, m \in 1..Len(result_clusters) :
               n # m => Range(result_clusters[n]) \cap Range(result_clusters[m]) = {}
        /\ UNION {Range(result_clusters[n]) : n \in 1..Len(result_clusters)}
               = CandidateContacts
        /\ Len(result_clusters) <= cluster_number

\* one adjustment step: the candidate taken is a largest one; the others stay,
\* in their order; the list ends with the candidate taken, kept whole, or
\* with two disjoint parts of at least 2 members each that make it up
SplitStep ==
    (op = "cluster" /\ pc = "replace" /\ pc' = "split") =>
        LET taken == result_clusters[largest_cluster_idx]
            others == [n \in 1..(Len(result_clusters) - 1) |->
                          IF n < largest_cluster_idx THEN result_clusters[n]
                          ELSE result_clusters[n + 1]]
            added == Len(result_clusters') - Len(others)
            last == result_clusters'[Len(result_clusters')]
            before == result_clusters'[Len(result_clusters') - 1]
        IN  /\ Cardinality(Candidates) < cluster_number
            /\ \A n \in 1..Len(result_clusters) : Len(result_clusters[n]) <= Len(taken)
            /\ added \in {1, 2}
            /\ SubSeq(result_clusters', 1, Len(others)) = others
            /\ added = 1 => last = taken
            /\ added = 2 =>
                   /\ Len(before) >= 2
                   /\ Len(last) >= 2
                   /\ Range(before) \cap Range(last) = {}
                   /\ Range(before) \cup Range(last) = Range(taken)
                   /\ Len(before) + Len(last) = Len(taken)

\* C28: when there are fewer candidates than cluster_number, every adjustment
\* step takes a currently-largest candidate and either replaces it by two
\* disjoint parts of at least 2 members each whose union is that candidate,
\* or keeps it whole; all other candidates are unchanged, so throughout the
\* loop the candidates stay pairwise disjoint, the set of clustered contacts
\* is unchanged, and the candidate count never exceeds cluster_number.
C28_SplitStepsPreserveCandidates == [][SplitStep]_vars /\ []SplitLoopInvariant

\* the loop has replaced the only candidate by two parts
C28_Witness ==
    /\ op = "cluster"
    /\ pc = "split"
    /\ Cardinality(Candidates) = 1
    /\ Len(result_clusters) = 2
    /\ Len(result_clusters[1]) + Len(result_clusters[2]) = 5

====
